---- MODULE Spec2Model ----
(***************************************************************************)
(* A model of the n8n API MCP server (src/src/index.ts, src/src/db/initDb.ts): *)
(* the CallToolRequestSchema handler with its ten tools, the two SQLite     *)
(* databases (endpoints, fast_memory) it reads and writes, the remote n8n   *)
(* API it calls, and the two process-wide flags it keeps.                   *)
(*                                                                         *)
(* A handler runs from one await to the next without interruption (the      *)
(* JavaScript event loop); between two awaits other handlers may run.  An   *)
(* awaited SQL statement and the resumption of the handler that awaits it   *)
(* are one step (DbStep); an awaited HTTP round trip and the resumption are *)
(* one step (HttpStep).                                                     *)
(***************************************************************************)
EXTENDS Integers, Sequences, FiniteSets, TLC

\* ------------------------------------------------------------------ bounds
\* Tool invocations in one behaviour.
MaxRequests == 2
\* Storage faults (I/O error, busy database) the environment injects in one behaviour.
MaxFaults == 1
\* Seconds the clock of CURRENT_TIMESTAMP advances in one behaviour.
MaxTime == 1

\* ------------------------------------------------------------- JavaScript values
\* Every JavaScript value has the same four fields, so that any two compare:
\* t is the type, s the characters of a string, n a number, kv the members of an
\* object (pairs of strings) or the items of an array (1-tuples of strings).
Undef == [t |-> "undefined", s |-> <<>>, n |-> 0, kv |-> <<>>]
Null == [t |-> "null", s |-> <<>>, n |-> 0, kv |-> <<>>]
Str(x) == [t |-> "str", s |-> x, n |-> 0, kv |-> <<>>]
Num(k) == [t |-> "num", s |-> <<>>, n |-> k, kv |-> <<>>]
Obj(members) == [t |-> "obj", s |-> <<>>, n |-> 0, kv |-> members]
Arr(items) == [t |-> "arr", s |-> <<>>, n |-> 0, kv |-> items]

\* !v of JavaScript: undefined, null, "" and 0 are falsy; objects and arrays,
\* the empty ones included, are truthy.
Falsy(v) ==
  \/ v.t \in {"undefined", "null"}
  \/ v.t = "str" /\ v.s = <<>>
  \/ v.t = "num" /\ v.n = 0

Truthy(v) == ~Falsy(v)

\* a || b
OrElse(a, b) == IF Truthy(a) THEN a ELSE b

\* A destructuring default (x = d): it applies to undefined only.
Default(v, d) == IF v = Undef THEN d ELSE v

\* ------------------------------------------------------------------ strings
\* A string is the sequence of its characters.
LowerLetters ==
  <<"a", "b", "c", "d", "e", "f", "g", "h", "i", "j", "k", "l", "m",
    "n", "o", "p", "q", "r", "s", "t", "u", "v", "w", "x", "y", "z">>

UpperLetters ==
  <<"A", "B", "C", "D", "E", "F", "G", "H", "I", "J", "K", "L", "M",
    "N", "O", "P", "Q", "R", "S", "T", "U", "V", "W", "X", "Y", "Z">>

UpperChar(c) ==
  IF \E i \in DOMAIN LowerLetters : LowerLetters[i] = c
  THEN UpperLetters[CHOOSE i \in DOMAIN LowerLetters : LowerLetters[i] = c]
  ELSE c

LowerChar(c) ==
  IF \E i \in DOMAIN UpperLetters : UpperLetters[i] = c
  THEN LowerLetters[CHOOSE i \in DOMAIN UpperLetters : UpperLetters[i] = c]
  ELSE c

\* String.prototype.toUpperCase, toLowerCase
toUpperCase(str) == [i \in 1..Len(str) |-> UpperChar(str[i])]
toLowerCase(str) == [i \in 1..Len(str) |-> LowerChar(str[i])]

\* haystack.includes(needle)
Includes(haystack, needle) ==
  \E i \in 0..(Len(haystack) - Len(needle)) :
    SubSeq(haystack, i + 1, i + Len(needle)) = needle

RECURSIVE Join(_, _)
\* parts.join(sep)
Join(parts, sep) ==
  IF parts = <<>> THEN <<>>
  ELSE IF Len(parts) = 1 THEN parts[1]
  ELSE parts[1] \o sep \o Join(Tail(parts), sep)

RECURSIVE Like(_, _)
\* text LIKE pattern of SQLite: % matches any run of characters, _ any one
\* character, and letters match without regard to case.
Like(pattern, text) ==
  IF pattern = <<>> THEN text = <<>>
  ELSE IF Head(pattern) = "%"
    THEN \E k \in 0..Len(text) : Like(Tail(pattern), SubSeq(text, k + 1, Len(text)))
  ELSE /\ text # <<>>
       /\ \/ Head(pattern) = "_"
          \/ UpperChar(Head(pattern)) = UpperChar(Head(text))
       /\ Like(Tail(pattern), Tail(text))

\* A match of the cell with any character of the query.
LikeContains_anyPart(cell, query) ==
  cell.t = "str" /\ \E i \in DOMAIN query : Includes(cell.s, <<query[i]>>)

\* column LIKE ? with the parameter `%${query}%`; NULL LIKE x is not true.
LikeContains(cell, query) ==
  cell.t = "str" /\ Like(<<"%">> \o query \o <<"%">>, cell.s)

\* --------------------------------------------------------------------- JSON
Quoted(str) == <<"\"">> \o str \o <<"\"">>

Digits == <<"0", "1", "2", "3", "4", "5", "6", "7", "8", "9">>

\* JSON.stringify(v), without indentation
JSONstringify(v) ==
  CASE v.t = "null" -> <<"n", "u", "l", "l">>
    [] v.t = "str" -> Quoted(v.s)
    [] v.t = "num" -> <<Digits[v.n + 1]>>
    [] v.t = "obj" ->
         <<"{">> \o
         Join([i \in 1..Len(v.kv) |-> Quoted(v.kv[i][1]) \o <<":">> \o Quoted(v.kv[i][2])],
              <<",">>) \o
         <<"}">>
    [] v.t = "arr" ->
         <<"[">> \o Join([i \in 1..Len(v.kv) |-> Quoted(v.kv[i][1])], <<",">>) \o <<"]">>

\* The JSON values of the model: what tool arguments, documents and bodies hold.
JsonValues ==
  {Null, Obj(<<>>), Arr(<<>>),
   Obj(<< <<(<<"l">>), (<<"5">>)>> >>),
   Obj(<< <<(<<"n">>), (<<"x">>)>> >>),
   Arr(<< <<(<<"t">>)>> >>),
   Str(<<"d">>), Num(5)}

\* JSON.parse(text): the value whose JSON text this is, or a SyntaxError.
JSONparse(text) ==
  IF \E v \in JsonValues : JSONstringify(v) = text
  THEN [ok |-> TRUE, v |-> CHOOSE v \in JsonValues : JSONstringify(v) = text]
  ELSE [ok |-> FALSE, v |-> Undef]

\* ------------------------------------------------------------- error codes
\* ErrorCode of @modelcontextprotocol/sdk, as the source names them.
InvalidParams == "InvalidParams"
InvalidRequest == "InvalidRequest"
InternalError == "InternalError"
MethodNotFound == "MethodNotFound"

\* ---------------------------------------------------------------- databases
\* CREATE TABLE endpoints
EndpointsColumns ==
  {"id", "path", "method", "summary", "description", "parameters", "requestBody",
   "responses", "tags"}

\* CREATE TABLE fast_memory
FastMemoryColumns ==
  {"id", "natural_language_query", "api_path", "api_method", "api_params", "api_data",
   "description", "usage_count", "created_at"}

\* What a statement gives its callback: err with its message, or the rows of a
\* SELECT (db.all), or this.lastID and this.changes of a write (db.run); db is
\* the database after the statement.
SqlOk(db, rows, lastID, changes) ==
  [err |-> FALSE, msg |-> "", rows |-> rows, lastID |-> lastID, changes |-> changes,
   db |-> db]

SqlError(db, msg) ==
  [err |-> TRUE, msg |-> msg, rows |-> <<>>, lastID |-> 0, changes |-> 0, db |-> db]

\* A statement naming a column the table does not have fails when it is prepared.
NoSuchColumn(columns, tableColumns) == columns \ tableColumns # {}

Max(a, b) == IF a > b THEN a ELSE b
Min(a, b) == IF a < b THEN a ELSE b

\* The rows of S in the order before, the pairs of a strict total order on S.
OrderBy(S, before) ==
  IF S = {} THEN <<>>
  ELSE CHOOSE q \in [1..Cardinality(S) -> S] :
         \A i, j \in 1..Cardinality(S) : i < j => (q[i] # q[j] /\ <<q[j], q[i]>> \notin before)

\* LIMIT n
Limit(q, n) == SubSeq(q, 1, Min(Len(q), n))

\* A scan that visits the rows from the last rowid to the first.
ByRowid_reversed(S) == {<<a, b>> \in S \X S : a.id > b.id}

\* A table scan visits the rows by rowid.
ByRowid(S) == {<<a, b>> \in S \X S : a.id < b.id}

\* An empty database file after the schema has been executed.
EmptyDb == [rows |-> {}, seq |-> 0, lastID |-> 0, inTxn |-> FALSE, saved |-> {}, savedSeq |-> 0]

\* The rowid AUTOINCREMENT gives the next inserted row: one more than the largest
\* rowid the table ever held (sqlite_sequence).
NextRowid(db) ==
  1 + Max(db.seq, IF db.rows = {} THEN 0
                  ELSE CHOOSE m \in {r.id : r \in db.rows} : \A r \in db.rows : r.id <= m)

\* ----------------------------------------------------- fast_memory statements
\* SELECT * FROM fast_memory WHERE path = ? AND method = ? LIMIT 1
\* (execute_api_call; send_raw_api_request selects id alone by the same WHERE)
SelectFastMemoryByPathMethod(db, path, method) ==
  IF NoSuchColumn({"path", "method"}, FastMemoryColumns)
  THEN SqlError(db, "no such column: path")
  ELSE SqlOk(db,
             LET found == {r \in db.rows : r["path"] = path /\ r["method"] = method}
             IN Limit(OrderBy(found, ByRowid(found)), 1),
             db.lastID, 0)

\* A lookup that counts the hit in the row it returns.
SelectFastMemoryByQuery_counting(db, query) ==
  LET found == {r \in db.rows : LikeContains(r["natural_language_query"], query)}
      hit == Limit(OrderBy(found, ByRowid(found)), 1)
  IN SqlOk([db EXCEPT !.rows = {IF Len(hit) > 0 /\ r = hit[1]
                                THEN [r EXCEPT !.usage_count = @ + 1] ELSE r : r \in @}],
           hit, db.lastID, 0)

\* SELECT * FROM fast_memory WHERE natural_language_query LIKE ? LIMIT 1
SelectFastMemoryByQuery(db, query) ==
  IF NoSuchColumn({"natural_language_query"}, FastMemoryColumns)
  THEN SqlError(db, "no such column: natural_language_query")
  ELSE SqlOk(db,
             LET found == {r \in db.rows : LikeContains(r["natural_language_query"], query)}
             IN Limit(OrderBy(found, ByRowid(found)), 1),
             db.lastID, 0)

\* The row an INSERT INTO fast_memory (natural_language_query, api_path,
\* api_method, api_params, api_data, description) adds: usage_count and
\* created_at take the defaults of the schema.
InsertedFastMemoryRow_used(id, p, now) ==
  [id |-> id,
   natural_language_query |-> p.natural_language_query,
   api_path |-> p.api_path,
   api_method |-> p.api_method,
   api_params |-> p.api_params,
   api_data |-> p.api_data,
   description |-> p.description,
   usage_count |-> 1,
   created_at |-> now]

InsertedFastMemoryRow(id, p, now) ==
  [id |-> id,
   natural_language_query |-> p.natural_language_query,
   api_path |-> p.api_path,
   api_method |-> p.api_method,
   api_params |-> p.api_params,
   api_data |-> p.api_data,
   description |-> p.description,
   usage_count |-> 0,
   created_at |-> now]

\* natural_language_query TEXT NOT NULL UNIQUE: the rows an insert of p
\* conflicts with.
ConflictingFastMemoryRows_none(rows, p) == {}

ConflictingFastMemoryRows(rows, p) ==
  {r \in rows : r.natural_language_query = p.natural_language_query}

\* An overwrite that replaces the row, as INSERT OR REPLACE would.
UpdatedFastMemoryRow_replaced(r, p, now) ==
  [id |-> r.id + 2,
   natural_language_query |-> p.natural_language_query,
   api_path |-> p.api_path,
   api_method |-> p.api_method,
   api_params |-> p.api_params,
   api_data |-> p.api_data,
   description |-> p.description,
   usage_count |-> 0,
   created_at |-> now]

\* ON CONFLICT(natural_language_query) DO UPDATE SET api_path = excluded.api_path,
\* ..., created_at = CURRENT_TIMESTAMP
UpdatedFastMemoryRow(r, p, now) ==
  [r EXCEPT !.api_path = p.api_path,
            !.api_method = p.api_method,
            !.api_params = p.api_params,
            !.api_data = p.api_data,
            !.description = p.description,
            !.created_at = now]

\* INSERT INTO fast_memory (...) VALUES (?, ?, ?, ?, ?, ?)
\* ON CONFLICT(natural_language_query) DO UPDATE SET ...
\* p holds the six bound values.  On a conflict the row keeps its id and its
\* usage_count; the rowid drawn for the insert that did not happen is not reused,
\* and last_insert_rowid() is left as it was.
UpsertFastMemory(db, p, now) ==
  LET old == ConflictingFastMemoryRows(db.rows, p)
      id == NextRowid(db)
  IN IF old = {}
     THEN SqlOk([db EXCEPT !.rows = @ \cup {InsertedFastMemoryRow(id, p, now)},
                           !.seq = id, !.lastID = id],
                <<>>, id, 1)
     ELSE SqlOk([db EXCEPT !.rows = (@ \ old) \cup
                                    {UpdatedFastMemoryRow(r, p, now) : r \in old},
                           !.seq = id],
                <<>>, db.lastID, 1)

\* DELETE FROM fast_memory WHERE id = ?
DeleteFastMemoryById(db, id) ==
  LET gone == {r \in db.rows : r.id = id}
  IN SqlOk([db EXCEPT !.rows = @ \ gone], <<>>, db.lastID, Cardinality(gone))

\* A DELETE FROM fast_memory that counts no row, as under a truncating delete.
DeleteAllFastMemory_uncounted(db) ==
  SqlOk([db EXCEPT !.rows = {}], <<>>, db.lastID, 0)

\* DELETE FROM fast_memory;
DeleteAllFastMemory(db) ==
  SqlOk([db EXCEPT !.rows = {}], <<>>, db.lastID, Cardinality(db.rows))

\* VACUUM;
Vacuum(db) == SqlOk(db, <<>>, db.lastID, 0)

\* UPDATE fast_memory SET usage_count = usage_count + 1 WHERE id = ?
IncrementUsage(db, id) ==
  LET hit == {r \in db.rows : r.id = id}
  IN SqlOk([db EXCEPT !.rows = (@ \ hit) \cup
              {[r EXCEPT !.usage_count = @ + 1] : r \in hit}],
           <<>>, db.lastID, Cardinality(hit))

\* The columns a SELECT id, natural_language_query, api_path, api_method,
\* description, created_at returns.
Listed(r) ==
  [id |-> r.id, natural_language_query |-> r.natural_language_query,
   api_path |-> r.api_path, api_method |-> r.api_method,
   description |-> r.description, created_at |-> r.created_at]

\* ORDER BY created_at DESC; rows of one second come by rowid.
ByCreatedAtDesc(S) ==
  {<<a, b>> \in S \X S :
     \/ a.created_at > b.created_at
     \/ a.created_at = b.created_at /\ a.id < b.id}

\* SELECT id, natural_language_query, api_path, api_method, description,
\* created_at FROM fast_memory [WHERE natural_language_query LIKE ? OR
\* description LIKE ?] ORDER BY created_at DESC LIMIT ?
ListFastMemory(db, search_term, limit) ==
  LET found == {r \in db.rows :
                  Truthy(search_term)
                  => \/ LikeContains(r.natural_language_query, search_term.s)
                     \/ LikeContains(r.description, search_term.s)}
      sorted == Limit(OrderBy(found, ByCreatedAtDesc(found)), limit)
  IN SqlOk(db, [i \in 1..Len(sorted) |-> Listed(sorted[i])], db.lastID, 0)

\* ------------------------------------------------------- endpoints statements
\* SELECT * FROM endpoints WHERE path = ? AND method = ? LIMIT 1
SelectEndpoint(db, path, method) ==
  IF NoSuchColumn({"path", "method"}, EndpointsColumns)
  THEN SqlError(db, "no such column: path")
  ELSE SqlOk(db,
             LET found == {r \in db.rows : r["path"] = path /\ r["method"] = method}
             IN Limit(OrderBy(found, ByRowid(found)), 1),
             db.lastID, 0)

\* length(summary): NULL for a NULL summary, which ORDER BY puts first.
SummaryLength(r) == IF r.summary.t = "str" THEN Len(r.summary.s) ELSE -1

ByLengthOfSummary(S) ==
  {<<a, b>> \in S \X S :
     \/ SummaryLength(a) < SummaryLength(b)
     \/ SummaryLength(a) = SummaryLength(b) /\ a.id < b.id}

\* The columns a SELECT id, path, method, summary, description, tags returns.
Projected(r) ==
  [id |-> r.id, path |-> r.path, method |-> r.method, summary |-> r.summary,
   description |-> r.description, tags |-> r.tags]

\* SELECT id, path, method, summary, description, tags FROM endpoints
\* WHERE summary LIKE ? OR description LIKE ? OR path LIKE ? OR tags LIKE ?
\* ORDER BY length(summary) LIMIT ?
SelectEndpointsByQuery(db, query, max_results) ==
  LET found == {r \in db.rows :
                  \/ LikeContains(r.summary, query)
                  \/ LikeContains(r.description, query)
                  \/ LikeContains(r.path, query)
                  \/ LikeContains(r.tags, query)}
      sorted == Limit(OrderBy(found, ByLengthOfSummary(found)), max_results)
  IN SqlOk(db, [i \in 1..Len(sorted) |-> Projected(sorted[i])], db.lastID, 0)

\* The characters of the paths and methods of endpoints, by their code.
Ascii == <<"/">> \o Digits \o UpperLetters \o <<"_">> \o LowerLetters \o <<"{", "}">>

CharCode(c) == CHOOSE i \in DOMAIN Ascii : Ascii[i] = c

\* a < b in the BINARY collation: bytewise, a proper prefix first.
BinaryBefore(a, b) ==
  \E i \in 1..(Min(Len(a), Len(b)) + 1) :
    /\ \A k \in 1..(i - 1) : a[k] = b[k]
    /\ \/ i > Len(a) /\ i <= Len(b)
       \/ i <= Len(a) /\ i <= Len(b) /\ CharCode(a[i]) < CharCode(b[i])

\* ORDER BY path, method
ByPathMethod(S) ==
  {<<a, b>> \in S \X S :
     \/ BinaryBefore(a.path.s, b.path.s)
     \/ a.path = b.path /\ BinaryBefore(a.method.s, b.method.s)}

\* SELECT id, path, method, summary, description, tags FROM endpoints
\* WHERE path LIKE ? OR method LIKE ? OR summary LIKE ? OR description LIKE ?
\* OR tags LIKE ? ORDER BY path, method LIMIT ?
SelectEndpointsSearch(db, query, limit) ==
  LET found == {r \in db.rows :
                  \/ LikeContains(r.path, query)
                  \/ LikeContains(r.method, query)
                  \/ LikeContains(r.summary, query)
                  \/ LikeContains(r.description, query)
                  \/ LikeContains(r.tags, query)}
      sorted == Limit(OrderBy(found, ByPathMethod(found)), limit)
  IN SqlOk(db, [i \in 1..Len(sorted) |-> Projected(sorted[i])], db.lastID, 0)

\* BEGIN TRANSACTION;
BeginTransaction(db) ==
  IF db.inTxn
  THEN SqlError(db, "cannot start a transaction within a transaction")
  ELSE SqlOk([db EXCEPT !.inTxn = TRUE, !.saved = db.rows, !.savedSeq = db.seq],
             <<>>, db.lastID, 0)

\* UNIQUE(path, method): the rows an insert of p conflicts with.
ConflictingEndpoints_none(rows, p) == {}

ConflictingEndpoints(rows, p) == {r \in rows : r.path = p.path /\ r.method = p.method}

\* INSERT OR REPLACE INTO endpoints (path, method, summary, description, parameters,
\* requestBody, responses, tags) VALUES (?, ?, ?, ?, ?, ?, ?, ?)
\* The rows that hold the pair are deleted and a new row, with a new id, is
\* inserted.
InsertOrReplaceEndpoint(db, p) ==
  LET old == ConflictingEndpoints(db.rows, p)
      id == NextRowid(db)
  IN SqlOk([db EXCEPT !.rows = (@ \ old) \cup
              {[id |-> id, path |-> p.path, method |-> p.method, summary |-> p.summary,
                description |-> p.description, parameters |-> p.parameters,
                requestBody |-> p.requestBody, responses |-> p.responses,
                tags |-> p.tags]},
              !.seq = id, !.lastID = id],
           <<>>, id, 1)

\* COMMIT;
Commit(db) ==
  IF ~db.inTxn
  THEN SqlError(db, "cannot commit - no transaction is active")
  ELSE SqlOk([db EXCEPT !.inTxn = FALSE, !.saved = {}, !.savedSeq = 0], <<>>, db.lastID, 0)

\* ROLLBACK;
Rollback(db) ==
  IF ~db.inTxn
  THEN SqlError(db, "cannot rollback - no transaction is active")
  ELSE SqlOk([db EXCEPT !.rows = db.saved, !.seq = db.savedSeq, !.inTxn = FALSE,
                        !.saved = {}, !.savedSeq = 0],
             <<>>, db.lastID, 0)

\* -------------------------------------------------------------------- state
VARIABLES
  fastMemoryDb,               \* fast_memory.db: the rows of fast_memory and its connection
  apiSpecDb,                  \* api_spec.db: the rows of endpoints and its connection
  lastCallFromFastMemory,     \* let lastCallFromFastMemory
  lastSuccessfulCallDetails,  \* let lastSuccessfulCallDetails
  req,                        \* the tool invocations in progress, and their results
  detached,                   \* statements run without await (fire and forget)
  wire,                       \* the HTTP requests sent to the n8n API so far
  started,                    \* tool invocations so far
  faults,                     \* storage faults injected so far
  clock,                      \* CURRENT_TIMESTAMP
  overlap                     \* how many invocations the transport lets run at once

vars ==
  <<fastMemoryDb, apiSpecDb, lastCallFromFastMemory, lastSuccessfulCallDetails, req,
    detached, wire, started, faults, clock, overlap>>

\* The invocations that can be in progress at once.
Slots == {1, 2}

\* ------------------------------------------------------------------ requests
NoStmt == [db |-> "", op |-> ""]
NoCall == [sent |-> FALSE, method |-> <<>>, url |-> <<>>, params |-> Undef, data |-> Undef]
NoResult == [kind |-> "none", code |-> "", msg |-> "", isError |-> FALSE, type |-> ""]
NoDetails == [set |-> FALSE, path |-> Undef, method |-> Undef, params |-> Undef, data |-> Undef]

\* args are the arguments of the invocation, loc the local variables of its
\* handler, out what the text of its result says.
Idle ==
  [pc |-> "idle", rid |-> 0, tool |-> "", args |-> <<>>, loc |-> <<>>, stmt |-> NoStmt,
   call |-> NoCall, result |-> NoResult, out |-> <<>>]

\* A catch of the handler that returns an McpError as it returns other errors.
Throw_returned(q, code, msg) ==
  [q EXCEPT !.pc = "done", !.stmt = NoStmt, !.call = NoCall, !.loc = <<>>,
            !.result = [kind |-> "returned", code |-> "", msg |-> msg, isError |-> TRUE,
                        type |-> "text"]]

\* throw new McpError(code, msg): the handler's catch re-throws it, and the
\* invocation ends with a protocol error instead of a result.
Throw(q, code, msg) ==
  [q EXCEPT !.pc = "done", !.stmt = NoStmt, !.call = NoCall, !.loc = <<>>,
            !.result = [kind |-> "thrown", code |-> code, msg |-> msg, isError |-> TRUE,
                        type |-> ""]]

\* return { content: [{ type, text }] }; what the text says is kept in q.out.
Return(q, type, msg) ==
  [q EXCEPT !.pc = "done", !.stmt = NoStmt, !.call = NoCall, !.loc = <<>>,
            !.result = [kind |-> "returned", code |-> "", msg |-> msg, isError |-> FALSE,
                        type |-> type]]

\* The catch of the handler for an error that is no McpError:
\* return { content: [{ type: "text", text: errorMessage }], isError: true }
ReturnError(q, msg) ==
  [q EXCEPT !.pc = "done", !.stmt = NoStmt, !.call = NoCall, !.loc = <<>>,
            !.result = [kind |-> "returned", code |-> "", msg |-> msg, isError |-> TRUE,
                        type |-> "text"]]

\* await dbAll(db, sql, params) or await dbRun(db, sql, params): the handler
\* stops at pc until the statement has run.
Await(q, pc, stmt) == [q EXCEPT !.pc = pc, !.stmt = stmt]

\* dbAll and dbRun reject with McpError(InternalError, `Database ... failed`).
DbFailed(q, res) == Throw(q, InternalError, res.msg)

\* What one run of a handler, from one await to the next, does besides changing
\* its own invocation: q is the invocation afterwards, fromFM says that
\* lastCallFromFastMemory was set to true, last is the value assigned to
\* lastSuccessfulCallDetails if any, send the HTTP requests sent and spawn the
\* statements started without await.
Ran(q) == [q |-> q, fromFM |-> FALSE, setLast |-> FALSE, last |-> NoDetails, send |-> {},
           spawn |-> {}]

\* ------------------------------------------------------- save_to_fast_memory
\* case "save_to_fast_memory", up to await dbRun
save_to_fast_memory_begin(q, args) ==
  LET natural_language_query == args.natural_language_query
      api_path == args.api_path
      api_method == args.api_method
      api_params == Default(args.api_params, Obj(<<>>))
      api_data == Default(args.api_data, Obj(<<>>))
      description == Default(args.description, Str(<<>>))
  IN IF Falsy(natural_language_query) \/ Falsy(api_path) \/ Falsy(api_method)
     THEN Throw(q, InvalidParams,
                "natural_language_query, api_path, and api_method are required.")
     ELSE Await(q, "save_run",
                [db |-> "fast_memory", op |-> "upsert",
                 p |-> [natural_language_query |-> natural_language_query,
                        api_path |-> api_path,
                        api_method |-> Str(toUpperCase(api_method.s)),
                        api_params |-> Str(JSONstringify(api_params)),
                        api_data |-> Str(JSONstringify(api_data)),
                        description |-> description]])

\* ... from const result = await dbRun(fastMemoryDb, sql, params) on
save_to_fast_memory_end(q, res) ==
  IF res.err THEN DbFailed(q, res)
  ELSE [Return(q, "text",
               IF res.changes > 0 THEN "Saved/Updated fast memory entry"
               ELSE "Failed to save to fast memory (no changes detected).")
        EXCEPT !.out = [id |-> res.lastID, changes |-> res.changes]]

\* --------------------------------------------------- delete_from_fast_memory
\* case "delete_from_fast_memory", up to await dbRun
delete_from_fast_memory_begin(q, args) ==
  IF args.id.t # "num"
  THEN Throw(q, InvalidParams, "A numeric ID is required.")
  ELSE Await(q, "delete_run", [db |-> "fast_memory", op |-> "delete", id |-> args.id.n])

\* ... from const result = await dbRun(fastMemoryDb, sql, [id]) on
delete_from_fast_memory_end(q, res) ==
  IF res.err THEN DbFailed(q, res)
  ELSE [Return(q, "text",
               IF res.changes > 0 THEN "Deleted fast memory entry"
               ELSE "Fast memory entry not found.")
        EXCEPT !.out = [id |-> q.args.id.n, changes |-> res.changes]]

\* --------------------------------------------------------- clear_fast_memory
\* case "clear_fast_memory", up to the first await dbRun
clear_fast_memory_begin(q, args) ==
  Await(q, "clear_delete", [db |-> "fast_memory", op |-> "delete_all"])

\* ... from const result = await dbRun(fastMemoryDb, sql) to await dbRun(vacuumSql)
clear_fast_memory_deleted(q, res) ==
  IF res.err THEN DbFailed(q, res)
  ELSE [Await(q, "clear_vacuum", [db |-> "fast_memory", op |-> "vacuum"])
        EXCEPT !.out = [id |-> 0, changes |-> res.changes]]

\* ... from await dbRun(fastMemoryDb, vacuumSql) on
clear_fast_memory_end(q, res) ==
  IF res.err THEN DbFailed(q, res)
  ELSE Return(q, "text", "Cleared entries from fast memory.")

\* ---------------------------------------------------------- list_fast_memory
\* limit = 20
DefaultListLimit == 20

\* case "list_fast_memory", up to await dbAll
list_fast_memory_begin(q, args) ==
  Await(q, "list_select",
        [db |-> "fast_memory", op |-> "list", search_term |-> args.search_term,
         limit |-> Default(args.limit, Num(DefaultListLimit)).n])

\* ... from const rows = await dbAll(fastMemoryDb, sql, params) on
list_fast_memory_end(q, res) ==
  IF res.err THEN DbFailed(q, res)
  ELSE [Return(q, "application/json", "") EXCEPT !.out = [rows |-> res.rows]]

\* ------------------------------------------------------- tools and arguments
\* A default case that throws the generic error.
unknown_tool_begin_generic(q) == Throw(q, InternalError, "Unknown tool")

\* default: throw new McpError(ErrorCode.MethodNotFound, `Unknown tool: ${name}`)
unknown_tool_begin(q) == Throw(q, MethodNotFound, "Unknown tool")

\* The tools whose case begins with const { ... } = args.
DestructuringTools ==
  {"search_api_endpoints", "get_api_endpoint_details", "execute_api_call",
   "natural_language_api_search", "save_to_fast_memory", "list_fast_memory",
   "delete_from_fast_memory", "send_raw_api_request", "load_api_spec_from_json"}

\* A request without arguments: const { ... } = args throws a TypeError, which
\* is no McpError, and the catch of the handler returns it as an error result.
without_arguments_begin(q) == ReturnError(q, "Error executing tool. TypeError")

\* ------------------------------------------------------------ the n8n API
\* makeN8nApiRequest, the request: axiosInstance.request({ method, url, params, data })
\* with the defaults params = {} and data = {} of its signature.
AxiosRequest(method, path, params, data) ==
  [sent |-> TRUE, method |-> toUpperCase(method), url |-> path,
   params |-> Default(params, Obj(<<>>)), data |-> Default(data, Obj(<<>>))]

\* The reason phrase the n8n API sends with a status.
StatusText(status) ==
  CASE status = 400 -> "Bad Request"
    [] status = 401 -> "Unauthorized"
    [] status = 403 -> "Forbidden"
    [] status = 404 -> "Not Found"
    [] status = 500 -> "Internal Server Error"
    [] OTHER -> "OK"

\* What the n8n API answers: a 2xx with a body, another status, or nothing (a
\* network failure or the 15 second timeout), which has status 0 here.
Responses ==
  {[ok |-> TRUE, status |-> 200, data |-> d] : d \in {Obj(<< <<(<<"n">>), (<<"x">>)>> >>)}}
  \cup {[ok |-> FALSE, status |-> st, data |-> Null] : st \in {401, 403, 404, 400, 500, 0}}

\* `n8n API error: ${error.response?.status} ${error.response?.statusText}.
\* Response: ${JSON.stringify(error.response?.data)}`; an error that has no
\* response gives undefined three times, and the failures here have no body.
ApiErrorMessage(response) ==
  IF response.status = 0
  THEN "n8n API error: undefined undefined. Response: undefined"
  ELSE "n8n API error: " \o ToString(response.status) \o " "
       \o StatusText(response.status) \o ". Response: null"

\* errorMessage += " Check your N8N_API_KEY."
KeyHint == " Check your N8N_API_KEY."

\* A catch that adds no hint for 401 and 403.
RequestError_unhinted(response) ==
  CASE response.status \in {401, 403, 404} ->
         [code |-> InvalidRequest, msg |-> ApiErrorMessage(response)]
    [] response.status >= 400 /\ response.status < 500 ->
         [code |-> InvalidParams, msg |-> ApiErrorMessage(response)]
    [] OTHER -> [code |-> InternalError, msg |-> ApiErrorMessage(response)]

\* makeN8nApiRequest, the catch: the McpError thrown for a failed request.
RequestError(response) ==
  CASE response.status \in {401, 403} ->
         [code |-> InvalidRequest, msg |-> ApiErrorMessage(response) \o KeyHint]
    [] response.status = 404 ->
         [code |-> InvalidRequest, msg |-> ApiErrorMessage(response)]
    [] response.status >= 400 /\ response.status < 500 ->
         [code |-> InvalidParams, msg |-> ApiErrorMessage(response)]
    [] OTHER -> [code |-> InternalError, msg |-> ApiErrorMessage(response)]

\* const MAX_RESPONSE_LENGTH = 5000
MAX_RESPONSE_LENGTH == 5000

TruncationMarker ==
  <<"\n", ".", ".", ".", " ", "(", "R", "e", "s", "p", "o", "n", "s", "e", " ",
    "t", "r", "u", "n", "c", "a", "t", "e", "d", ")">>

\* Truncate large responses
Truncate(responseText) ==
  IF Len(responseText) > MAX_RESPONSE_LENGTH
  THEN SubSeq(responseText, 1, MAX_RESPONSE_LENGTH) \o TruncationMarker
  ELSE responseText

\* The save suggestion: path, method and, when truthy, params and data.
SaveSuggestion(path, method, params, data) ==
  [set |-> TRUE, path |-> path, method |-> toUpperCase(method),
   paramsStr |-> IF Truthy(params) THEN JSONstringify(params) ELSE <<>>,
   dataStr |-> IF Truthy(data) THEN JSONstringify(data) ELSE <<>>]

NoSuggestion ==
  [set |-> FALSE, path |-> <<>>, method |-> <<>>, paramsStr |-> <<>>, dataStr |-> <<>>]

\* ---------------------------------------------------------- execute_api_call
NoEntry == [id |-> 0, description |-> Null, api_params |-> Null, api_data |-> Null]

\* case "execute_api_call", up to await dbAll
execute_api_call_begin(q, args) ==
  IF Falsy(args.path) \/ Falsy(args.method)
  THEN Throw(q, InvalidParams, "Path and method are required.")
  ELSE [Await(q, "execute_lookup",
              [db |-> "fast_memory", op |-> "select_path_method", path |-> args.path,
               method |-> Str(toUpperCase(args.method.s))])
        EXCEPT !.loc = [params |-> args.params, data |-> args.data, hit |-> FALSE,
                        fastMemoryEntry |-> NoEntry]]

\* if (!x && stored) { try { x = JSON.parse(stored) } catch { } }
SavedOr(x, stored) ==
  IF Falsy(x) /\ Truthy(stored)
  THEN LET parsed == JSONparse(stored.s) IN IF parsed.ok THEN parsed.v ELSE x
  ELSE x

\* ... from const fastResults = await dbAll(...) to await makeN8nApiRequest(...)
execute_api_call_found(q, res) ==
  IF res.err THEN Ran(DbFailed(q, res))
  ELSE LET hit == Len(res.rows) > 0
           fastMemoryEntry == IF hit THEN res.rows[1] ELSE NoEntry
           params == IF hit THEN SavedOr(q.loc.params, fastMemoryEntry.api_params)
                     ELSE q.loc.params
           data == IF hit THEN SavedOr(q.loc.data, fastMemoryEntry.api_data)
                   ELSE q.loc.data
           call == AxiosRequest(q.args.method.s, q.args.path.s, params, data)
       IN [Ran([q EXCEPT !.pc = "execute_http", !.stmt = NoStmt, !.call = call,
                         !.loc = [params |-> params, data |-> data, hit |-> hit,
                                  fastMemoryEntry |-> fastMemoryEntry]])
           EXCEPT !.fromFM = hit,
                  !.send = {[rid |-> q.rid, call |-> call]},
                  !.spawn = IF hit
                            THEN {[db |-> "fast_memory", op |-> "increment",
                                   id |-> fastMemoryEntry.id, rid |-> q.rid]}
                            ELSE {}]

\* `ID ${fastMemoryEntry.id}`
IdText(id) == Str(<<"I", "D", " ", Digits[id + 1]>>)

\* ... from const result = await makeN8nApiRequest(...) on; fromFM is the value
\* of lastCallFromFastMemory when the handler resumes.
execute_api_call_end(q, response, fromFM) ==
  IF ~response.ok
  THEN Ran(Throw(q, RequestError(response).code, RequestError(response).msg))
  ELSE LET note == fromFM /\ q.loc.hit
       IN [Ran([Return(q, "application/json", "")
                EXCEPT !.out =
                  [messagePrefix |->
                     IF note
                     THEN OrElse(q.loc.fastMemoryEntry.description,
                                 IdText(q.loc.fastMemoryEntry.id))
                     ELSE Str(<<>>),
                   responseText |-> Truncate(JSONstringify(response.data)),
                   saveSuggestion |->
                     IF note THEN NoSuggestion
                     ELSE SaveSuggestion(q.args.path.s, q.args.method.s,
                                         q.loc.params, q.loc.data)]])
           EXCEPT !.setLast = TRUE,
                  !.last = [set |-> TRUE, path |-> q.args.path, method |-> q.args.method,
                            params |-> q.loc.params, data |-> q.loc.data]]

\* ------------------------------------------------------ search_api_endpoints
\* limit = 10
DefaultLimit == 10

\* case "search_api_endpoints", up to await dbAll
search_api_endpoints_begin(q, args) ==
  IF Falsy(args.query)
  THEN Throw(q, InvalidParams, "Query is required.")
  ELSE Await(q, "endpoints_select",
             [db |-> "api_spec", op |-> "select_search", query |-> args.query.s,
              limit |-> Default(args.limit, Num(DefaultLimit)).n])

\* ... from const rows = await dbAll(apiSpecDb, sql, params) on
search_api_endpoints_end(q, res) ==
  IF res.err THEN DbFailed(q, res)
  ELSE [Return(q, "application/json", "") EXCEPT !.out = res.rows]

\* ----------------------------------------------- natural_language_api_search
\* max_results = 5
DefaultMaxResults == 5

\* case "natural_language_api_search", up to the first await dbAll
natural_language_api_search_begin(q, args) ==
  IF Falsy(args.query)
  THEN Throw(q, InvalidParams, "Query is required.")
  ELSE Await(q, "search_memory",
             [db |-> "fast_memory", op |-> "select_query", query |-> args.query.s])

\* A search that returns an entry without what is stored in the cell.
ParsedOrUndefined_dropped(cell) == [ok |-> TRUE, v |-> Undef]

\* entry.api_params ? JSON.parse(entry.api_params) : undefined
ParsedOrUndefined(cell) ==
  IF Truthy(cell) THEN JSONparse(cell.s) ELSE [ok |-> TRUE, v |-> Undef]

\* ... from const fastResults = await dbAll(fastMemoryDb, ...) to the return of
\* the entry found, or to await dbAll(apiSpecDb, ...)
natural_language_api_search_memory(q, res) ==
  IF res.err THEN DbFailed(q, res)
  ELSE IF Len(res.rows) > 0
  THEN LET entry == res.rows[1]
           api_params == ParsedOrUndefined(entry.api_params)
           api_data == ParsedOrUndefined(entry.api_data)
       IN IF ~api_params.ok \/ ~api_data.ok
          THEN ReturnError(q, "Error executing tool. SyntaxError")
          ELSE [Return(q, "application/json", "Found match in fast memory.")
                EXCEPT !.out = [entry |-> [id |-> entry.id,
                                           natural_language_query |->
                                             entry.natural_language_query,
                                           api_path |-> entry.api_path,
                                           api_method |-> entry.api_method,
                                           api_params |-> api_params.v,
                                           api_data |-> api_data.v,
                                           description |-> entry.description,
                                           created_at |-> entry.created_at],
                                results |-> <<>>]]
  ELSE Await(q, "search_spec",
             [db |-> "api_spec", op |-> "select_query", query |-> q.args.query.s,
              max_results |-> Default(q.args.max_results, Num(DefaultMaxResults)).n])

\* A search that treats an empty outcome as get_api_endpoint_details treats a
\* missing endpoint.
natural_language_api_search_end_throws(q, res) ==
  IF res.err THEN DbFailed(q, res)
  ELSE IF Len(res.rows) = 0
  THEN Throw(q, InvalidRequest, "No match found in fast memory or API spec")
  ELSE [Return(q, "application/json", "Found potential matches in API spec database")
        EXCEPT !.out = [entry |-> NoEntry, results |-> res.rows]]

\* ... from const specResults = await dbAll(apiSpecDb, specSql, specParams) on
natural_language_api_search_end(q, res) ==
  IF res.err THEN DbFailed(q, res)
  ELSE IF Len(res.rows) = 0
  THEN [Return(q, "text", "No match found in fast memory or API spec")
        EXCEPT !.out = [entry |-> NoEntry, results |-> <<>>]]
  ELSE [Return(q, "application/json", "Found potential matches in API spec database")
        EXCEPT !.out = [entry |-> NoEntry, results |-> res.rows]]

\* --------------------------------------------------- get_api_endpoint_details
\* case "get_api_endpoint_details", up to await dbAll
get_api_endpoint_details_begin(q, args) ==
  IF Falsy(args.path) \/ Falsy(args.method)
  THEN Throw(q, InvalidParams, "Path and method are required.")
  ELSE Await(q, "details_select",
             [db |-> "api_spec", op |-> "select_path_method", path |-> args.path,
              method |-> Str(toUpperCase(args.method.s))])

\* x ? JSON.parse(x) : null
ParsedOrNull_raw(cell) == [ok |-> TRUE, v |-> cell]

ParsedOrNull(cell) ==
  IF Truthy(cell) THEN JSONparse(cell.s) ELSE [ok |-> TRUE, v |-> Null]

\* try { endpoint.parameters = ...; endpoint.requestBody = ...;
\*       endpoint.responses = ...; endpoint.tags = ... } catch { }
\* The fields before the one that does not parse are parsed, that one and the
\* fields after it stay the stored text.
ParseJsonFields(endpoint) ==
  LET parameters == ParsedOrNull(endpoint.parameters)
      requestBody == ParsedOrNull(endpoint.requestBody)
      responses == ParsedOrNull(endpoint.responses)
      tags == ParsedOrNull(endpoint.tags)
      ok1 == parameters.ok
      ok2 == ok1 /\ requestBody.ok
      ok3 == ok2 /\ responses.ok
      ok4 == ok3 /\ tags.ok
  IN [endpoint EXCEPT
        !.parameters = IF ok1 THEN parameters.v ELSE @,
        !.requestBody = IF ok2 THEN requestBody.v ELSE @,
        !.responses = IF ok3 THEN responses.v ELSE @,
        !.tags = IF ok4 THEN tags.v ELSE @]

\* ... from const rows = await dbAll(apiSpecDb, sql, ...) on
get_api_endpoint_details_end(q, res) ==
  IF res.err THEN DbFailed(q, res)
  ELSE IF Len(res.rows) = 0
  THEN Throw(q, InvalidRequest, "Endpoint details not found in database")
  ELSE [Return(q, "application/json", "") EXCEPT !.out = ParseJsonFields(res.rows[1])]

\* ---------------------------------------------------- load_api_spec_from_json
HttpMethods ==
  {<<"g", "e", "t">>, <<"p", "o", "s", "t">>, <<"p", "u", "t">>,
   <<"p", "a", "t", "c", "h">>, <<"d", "e", "l", "e", "t", "e">>,
   <<"o", "p", "t", "i", "o", "n", "s">>, <<"h", "e", "a", "d">>,
   <<"t", "r", "a", "c", "e">>}

\* case "load_api_spec_from_json", up to await fs.readFile
load_api_spec_from_json_begin(q, args) ==
  IF Falsy(args.json_file_path)
  THEN Throw(q, InvalidParams, "JSON file path is required.")
  ELSE [q EXCEPT !.pc = "load_read"]

\* A load that parses the document and does not look for openapi and paths.
load_api_spec_from_json_read_unchecked(q, file) ==
  IF ~file.readable
  THEN Throw(q, InvalidParams, "Failed to read file at path")
  ELSE IF ~file.json
  THEN Throw(q, InvalidParams, "Failed to parse JSON from file")
  ELSE [Await(q, "load_begin", [db |-> "api_spec", op |-> "begin"])
        EXCEPT !.loc = [paths |-> file.paths, at |-> 1, endpointsAdded |-> 0,
                        endpointsFailed |-> 0, error |-> ""]]

\* ... from specContent = await fs.readFile(...) to await dbRun('BEGIN TRANSACTION;').
\* file is what the path holds: whether it can be read, whether it is JSON, and
\* the parsed document: its openapi member and its paths, flattened to the
\* (path, key, value) triples that the two for-in loops visit, in their order.
load_api_spec_from_json_read(q, file) ==
  IF ~file.readable
  THEN Throw(q, InvalidParams, "Failed to read file at path")
  ELSE IF ~file.json \/ Falsy(file.openapi) \/ ~file.hasPaths
  THEN Throw(q, InvalidParams, "Failed to parse JSON from file")
  ELSE [Await(q, "load_begin", [db |-> "api_spec", op |-> "begin"])
        EXCEPT !.loc = [paths |-> file.paths, at |-> 1, endpointsAdded |-> 0,
                        endpointsFailed |-> 0, error |-> ""]]

\* The bound values of one INSERT OR REPLACE.
EndpointParams(apiPath, method, endpointData) ==
  [path |-> Str(apiPath),
   method |-> Str(toUpperCase(method)),
   summary |-> OrElse(endpointData.summary, Null),
   description |-> OrElse(endpointData.description, Null),
   parameters |-> IF Truthy(endpointData.parameters)
                  THEN Str(JSONstringify(endpointData.parameters)) ELSE Null,
   requestBody |-> IF Truthy(endpointData.requestBody)
                   THEN Str(JSONstringify(endpointData.requestBody)) ELSE Null,
   responses |-> IF Truthy(endpointData.responses)
                 THEN Str(JSONstringify(endpointData.responses)) ELSE Null,
   tags |-> IF Truthy(endpointData.tags)
            THEN Str(JSONstringify(endpointData.tags)) ELSE Null]

\* An outer catch that throws and runs no ROLLBACK.
load_api_spec_from_json_catch_throwing(q, msg) ==
  Throw(q, InternalError, "Database transaction failed during spec load")

\* catch (transactionError) { await dbRun(apiSpecDb, 'ROLLBACK;'); throw ... }
load_api_spec_from_json_catch(q, msg) ==
  [Await(q, "load_rollback", [db |-> "api_spec", op |-> "rollback"])
   EXCEPT !.loc.error = msg]

RECURSIVE load_api_spec_from_json_loop(_)
\* The two for-in loops, from the triple q.loc.at up to the next await: the
\* INSERT OR REPLACE of the next key that is an HTTP method, the ROLLBACK when
\* reading the members of that key's value throws (the value is null), or the
\* COMMIT after the last triple.
load_api_spec_from_json_loop(q) ==
  IF q.loc.at > Len(q.loc.paths)
  THEN Await(q, "load_commit", [db |-> "api_spec", op |-> "commit"])
  ELSE LET item == q.loc.paths[q.loc.at]
       IN IF toLowerCase(item.method) \notin HttpMethods
          THEN load_api_spec_from_json_loop([q EXCEPT !.loc.at = @ + 1])
          ELSE IF item.endpointData.isNull
          THEN load_api_spec_from_json_catch(q, "TypeError")
          ELSE Await(q, "load_insert",
                     [db |-> "api_spec", op |-> "insert_or_replace",
                      p |-> EndpointParams(item.apiPath, item.method, item.endpointData)])

\* ... from await dbRun(apiSpecDb, 'BEGIN TRANSACTION;') into the loops
load_api_spec_from_json_begun(q, res) ==
  IF res.err THEN DbFailed(q, res) ELSE load_api_spec_from_json_loop(q)

\* A load without the inner try: a failed INSERT reaches the outer catch.
load_api_spec_from_json_inserted_aborting(q, res) ==
  IF res.err THEN load_api_spec_from_json_catch(q, res.msg)
  ELSE load_api_spec_from_json_loop(
         [q EXCEPT !.loc.at = @ + 1, !.loc.endpointsAdded = @ + 1])

\* try { await dbRun(apiSpecDb, insertSql, params); endpointsAdded++ }
\* catch (insertError) { endpointsFailed++ }, and on into the loops
load_api_spec_from_json_inserted(q, res) ==
  load_api_spec_from_json_loop(
    [q EXCEPT !.loc.at = @ + 1,
              !.loc.endpointsAdded = IF res.err THEN @ ELSE @ + 1,
              !.loc.endpointsFailed = IF res.err THEN @ + 1 ELSE @])

\* ... from await dbRun(apiSpecDb, 'COMMIT;') on
load_api_spec_from_json_committed(q, res) ==
  IF res.err THEN load_api_spec_from_json_catch(q, res.msg)
  ELSE [Return(q, "text", "API Spec Load Complete.")
        EXCEPT !.out = [endpointsAdded |-> q.loc.endpointsAdded,
                        endpointsFailed |-> q.loc.endpointsFailed]]

\* ... from await dbRun(apiSpecDb, 'ROLLBACK;') on: the McpError of a failed
\* ROLLBACK, or the McpError that wraps the error caught.
load_api_spec_from_json_rolled_back(q, res) ==
  IF res.err THEN DbFailed(q, res)
  ELSE Throw(q, InternalError, "Database transaction failed during spec load")

\* ------------------------------------------------------ send_raw_api_request
Whitespace == {" ", "\t", "\n"}

RECURSIVE TrimStart(_)
TrimStart(str) ==
  IF str # <<>> /\ Head(str) \in Whitespace THEN TrimStart(Tail(str)) ELSE str

RECURSIVE TrimEnd(_)
TrimEnd(str) ==
  IF str # <<>> /\ str[Len(str)] \in Whitespace
  THEN TrimEnd(SubSeq(str, 1, Len(str) - 1)) ELSE str

\* String.prototype.trim
Trim(str) == TrimEnd(TrimStart(str))

\* The length of the longest prefix of str made of characters that are in
\* (inside = TRUE) or not in (inside = FALSE) the set chars.
RECURSIVE Run(_, _, _)
Run(str, chars, inside) ==
  IF str # <<>> /\ ((Head(str) \in chars) = inside)
  THEN 1 + Run(Tail(str), chars, inside) ELSE 0

Drop(str, k) == SubSeq(str, k + 1, Len(str))

\* raw_request.trim().match(/^(\S+)\s+(\S+)(?:\s+(.*))?$/): the groups 1, 2 and
\* 3, group 3 undefined when the string ends after group 2; no match when there
\* is no second word, or when a line ends inside the third part (. matches no
\* line terminator).
MatchRawRequest(raw_request) ==
  LET str == Trim(raw_request)
      n1 == Run(str, Whitespace, FALSE)
      rest1 == Drop(str, n1)
      s1 == Run(rest1, Whitespace, TRUE)
      rest2 == Drop(rest1, s1)
      n2 == Run(rest2, Whitespace, FALSE)
      rest3 == Drop(rest2, n2)
      s2 == Run(rest3, Whitespace, TRUE)
      body == Drop(rest3, s2)
  IN IF n1 = 0 \/ s1 = 0 \/ n2 = 0 \/ (\E i \in DOMAIN body : body[i] = "\n")
     THEN [matched |-> FALSE, method |-> <<>>, pathAndQuery |-> <<>>, bodyString |-> Undef]
     ELSE [matched |-> TRUE, method |-> SubSeq(str, 1, n1),
           pathAndQuery |-> SubSeq(rest2, 1, n2),
           bodyString |-> IF rest3 = <<>> THEN Undef ELSE Str(body)]

\* str.indexOf(ch), counted from 1; 0 when ch is not in str
IndexOf(str, ch) ==
  IF \E i \in DOMAIN str : str[i] = ch
  THEN CHOOSE i \in DOMAIN str : str[i] = ch /\ \A j \in 1..(i - 1) : str[j] # ch
  ELSE 0

RECURSIVE Split(_, _)
\* str.split(ch)
Split(str, ch) ==
  IF IndexOf(str, ch) = 0 THEN <<str>>
  ELSE <<SubSeq(str, 1, IndexOf(str, ch) - 1)>> \o Split(Drop(str, IndexOf(str, ch)), ch)

\* The + of a query string stands for a space.
PlusToSpace(str) == [i \in 1..Len(str) |-> IF str[i] = "+" THEN " " ELSE str[i]]

\* obj[key] = value: a key the object has keeps its place.
Put(members, key, value) ==
  IF \E i \in DOMAIN members : members[i][1] = key
  THEN [i \in DOMAIN members |-> IF members[i][1] = key THEN <<key, value>> ELSE members[i]]
  ELSE Append(members, <<key, value>>)

RECURSIVE FromEntries(_, _)
FromEntries(members, pairs) ==
  IF pairs = <<>> THEN members
  ELSE FromEntries(Put(members, pairs[1][1], pairs[1][2]), Tail(pairs))

\* A decomposition that loses the query string.
QueryParams_none(queryString) == Obj(<<>>)

\* Object.fromEntries(new URLSearchParams(queryString)): the pairs name=value
\* between the & signs, the empty ones left out, the last value of a name kept.
QueryParams(queryString) ==
  LET parts == SelectSeq(Split(queryString, "&"), LAMBDA part : part # <<>>)
      pair(part) ==
        IF IndexOf(part, "=") = 0 THEN <<PlusToSpace(part), <<>> >>
        ELSE <<PlusToSpace(SubSeq(part, 1, IndexOf(part, "=") - 1)),
               PlusToSpace(Drop(part, IndexOf(part, "=")))>>
  IN Obj(FromEntries(<<>>, [i \in 1..Len(parts) |-> pair(parts[i])]))

\* case "send_raw_api_request", up to await makeN8nApiRequest
send_raw_api_request_begin(q, args) ==
  IF Falsy(args.raw_request)
  THEN Ran(Throw(q, InvalidParams, "raw_request string is required."))
  ELSE LET parts == MatchRawRequest(args.raw_request.s)
           method == parts.method
           pathAndQuery == parts.pathAndQuery
           bodyString == parts.bodyString
           queryIndex == IndexOf(pathAndQuery, "?")
           path == IF queryIndex # 0 THEN SubSeq(pathAndQuery, 1, queryIndex - 1)
                   ELSE pathAndQuery
           params == IF queryIndex # 0 THEN QueryParams(Drop(pathAndQuery, queryIndex))
                     ELSE Obj(<<>>)
           body == IF Truthy(bodyString) THEN JSONparse(bodyString.s)
                   ELSE [ok |-> TRUE, v |-> Null]
           call == AxiosRequest(method, path, params, body.v)
       IN IF ~parts.matched
          THEN Ran(Throw(q, InvalidParams, "Invalid raw_request format."))
          ELSE IF ~body.ok
          THEN Ran(Throw(q, InvalidParams, "Invalid JSON body provided"))
          ELSE [Ran([q EXCEPT !.pc = "raw_http", !.call = call,
                              !.loc = [path |-> path, method |-> method,
                                       params |-> params, data |-> body.v]])
                EXCEPT !.send = {[rid |-> q.rid, call |-> call]}]

\* A send_raw_api_request that sends its request again when it has failed.
send_raw_api_request_answered_retrying(q, response) ==
  IF ~response.ok
  THEN Ran(q)
  ELSE [Ran([Await(q, "raw_lookup",
                   [db |-> "fast_memory", op |-> "select_path_method",
                    path |-> Str(q.loc.path),
                    method |-> Str(toUpperCase(q.loc.method))])
             EXCEPT !.out = [messagePrefix |-> Str(<<>>),
                             responseText |-> JSONstringify(response.data),
                             saveSuggestion |-> NoSuggestion]])
        EXCEPT !.setLast = TRUE,
               !.last = [set |-> TRUE, path |-> Str(q.loc.path),
                         method |-> Str(q.loc.method),
                         params |-> q.loc.params, data |-> q.loc.data]]

\* A send_raw_api_request that does not record the call it made.
send_raw_api_request_answered_unrecorded(q, response) ==
  IF ~response.ok
  THEN Ran(Throw(q, RequestError(response).code, RequestError(response).msg))
  ELSE Ran([Await(q, "raw_lookup",
                  [db |-> "fast_memory", op |-> "select_path_method",
                   path |-> Str(q.loc.path),
                   method |-> Str(toUpperCase(q.loc.method))])
            EXCEPT !.out = [messagePrefix |-> Str(<<>>),
                            responseText |-> JSONstringify(response.data),
                            saveSuggestion |-> NoSuggestion]])

\* ... from const result = await makeN8nApiRequest(...) to await dbAll
send_raw_api_request_answered(q, response) ==
  IF ~response.ok
  THEN Ran(Throw(q, RequestError(response).code, RequestError(response).msg))
  ELSE [Ran([Await(q, "raw_lookup",
                   [db |-> "fast_memory", op |-> "select_path_method",
                    path |-> Str(q.loc.path),
                    method |-> Str(toUpperCase(q.loc.method))])
             EXCEPT !.out = [messagePrefix |-> Str(<<>>),
                             responseText |-> JSONstringify(response.data),
                             saveSuggestion |-> NoSuggestion]])
        EXCEPT !.setLast = TRUE,
               !.last = [set |-> TRUE, path |-> Str(q.loc.path),
                         method |-> Str(q.loc.method),
                         params |-> q.loc.params, data |-> q.loc.data]]

\* ... from const fastResults = await dbAll(fastMemoryDb, ...) on
send_raw_api_request_end(q, res) ==
  IF res.err THEN DbFailed(q, res)
  ELSE [Return(q, "application/json", "")
        EXCEPT !.out = [messagePrefix |-> Str(<<>>),
                        responseText |-> Truncate(q.out.responseText),
                        saveSuggestion |->
                          IF Len(res.rows) = 0
                          THEN SaveSuggestion(q.loc.path, q.loc.method,
                                              q.loc.params, q.loc.data)
                          ELSE NoSuggestion]]

\* ------------------------------------------------------------------- inputs
Get == <<"g", "e", "t">>
GET == <<"G", "E", "T">>
Post == <<"P", "o", "s", "t">>
PathW == <<"/", "w">>
PathX == <<"/", "x">>
QueryAB == <<"a", "b">>
QueryBC == <<"b", "c">>
Limit5 == Obj(<< <<(<<"l">>), (<<"5">>)>> >>)
NameX == Obj(<< <<(<<"n">>), (<<"x">>)>> >>)
TagT == Arr(<< <<(<<"t">>)>> >>)

\* Arguments of save_to_fast_memory: a query saved twice with every other
\* argument different, a second query bound to the path and method of the
\* first, and a call without its query.
SaveArgs ==
  {[natural_language_query |-> Str(QueryAB), api_path |-> Str(PathW),
    api_method |-> Str(Get), api_params |-> Undef, api_data |-> Undef,
    description |-> Undef],
   [natural_language_query |-> Str(QueryAB), api_path |-> Str(PathX),
    api_method |-> Str(Post), api_params |-> Limit5, api_data |-> NameX,
    description |-> Str(<<"d">>)],
   [natural_language_query |-> Str(QueryBC), api_path |-> Str(PathW),
    api_method |-> Str(GET), api_params |-> Limit5, api_data |-> Undef,
    description |-> Undef],
   [natural_language_query |-> Undef, api_path |-> Str(PathW),
    api_method |-> Str(Get), api_params |-> Undef, api_data |-> Undef,
    description |-> Undef]}

DeleteArgs == {[id |-> Num(1)], [id |-> Num(2)], [id |-> Str(<<"1">>)]}

ListArgs ==
  {[search_term |-> Undef, limit |-> Undef],
   [search_term |-> Str(<<"b">>), limit |-> Num(1)]}

ExecuteArgs ==
  {[path |-> Str(PathW), method |-> Str(Get), params |-> Undef, data |-> Undef],
   [path |-> Str(PathW), method |-> Str(Get), params |-> NameX, data |-> NameX],
   [path |-> Str(PathX), method |-> Str(Post), params |-> Undef, data |-> Undef],
   [path |-> Str(PathX), method |-> Str(Post), params |-> Obj(<<>>), data |-> NameX],
   [path |-> Str(PathW), method |-> Undef, params |-> Undef, data |-> Undef]}

SearchArgs ==
  {[query |-> Str(<<"b">>), max_results |-> Undef],
   [query |-> Str(<<"A">>), max_results |-> Num(1)],
   [query |-> Str(<<"w">>), max_results |-> Undef],
   [query |-> Str(<<"B">>), max_results |-> Undef],
   [query |-> Str(<<"w", " ", "x">>), max_results |-> Num(5)],
   [query |-> Undef, max_results |-> Undef]}

EndpointSearchArgs ==
  {[query |-> Str(<<"w">>), limit |-> Undef],
   [query |-> Str(<<"e">>), limit |-> Num(1)],
   [query |-> Undef, limit |-> Undef]}

DetailsArgs ==
  {[path |-> Str(PathW), method |-> Str(Get)],
   [path |-> Str(PathW), method |-> Str(GET)],
   [path |-> Str(PathX), method |-> Str(Post)],
   [path |-> Undef, method |-> Str(Get)]}

\* 'GET /w?l=5', 'Post /x {"n":"x"}', 'GET', 'Post /x {b' and '/x {"n":"x"}'
RawArgs ==
  {[raw_request |-> Str(<<"G", "E", "T", " ", "/", "w", "?", "l", "=", "5">>)],
   [raw_request |-> Str(<<"P", "o", "s", "t", " ", "/", "x", " ",
                          "{", "\"", "n", "\"", ":", "\"", "x", "\"", "}">>)],
   [raw_request |-> Str(<<"G", "E", "T">>)],
   [raw_request |-> Str(<<"P", "o", "s", "t", " ", "/", "x", " ", "{", "b">>)],
   [raw_request |-> Str(<<"/", "x", " ", "{", "\"", "n", "\"", ":", "\"", "x", "\"", "}">>)],
   [raw_request |-> Undef]}


\* The value of one key of a path item.
EndpointData(summary, description, parameters, requestBody, responses, tags) ==
  [isNull |-> FALSE, summary |-> summary, description |-> description,
   parameters |-> parameters, requestBody |-> requestBody, responses |-> responses,
   tags |-> tags]

NullData ==
  [isNull |-> TRUE, summary |-> Undef, description |-> Undef, parameters |-> Undef,
   requestBody |-> Undef, responses |-> Undef, tags |-> Undef]

Full == EndpointData(Str(<<"l", "w">>), Str(<<"d">>), TagT, NameX, Obj(<<>>), TagT)
Bare == EndpointData(Str(<<"w">>), Undef, Undef, Undef, Undef, Undef)
Blank == EndpointData(Str(<<>>), Str(<<>>), Arr(<<>>), Undef, Undef, Undef)
Phrase == EndpointData(Str(<<"w", " ", "x">>), Undef, Undef, Undef, Undef, Undef)

Triple(apiPath, method, endpointData) ==
  [apiPath |-> apiPath, method |-> method, endpointData |-> endpointData]

Document(paths) ==
  [readable |-> TRUE, json |-> TRUE, openapi |-> Str(<<"3">>), hasPaths |-> TRUE,
   paths |-> paths]

\* What the file of load_api_spec_from_json can hold: nothing readable, no JSON,
\* a document without openapi or without paths, and documents with one or two
\* endpoints: with a member of the path item that is no method, with the keys
\* get and GET on one path, with empty strings, with a key whose value is null,
\* and with a summary of one word beside a summary of two.
Files ==
  {[Document(<<>>) EXCEPT !.readable = FALSE],
   [Document(<<>>) EXCEPT !.json = FALSE],
   [Document(<<>>) EXCEPT !.openapi = Undef],
   [Document(<<>>) EXCEPT !.hasPaths = FALSE],
   Document(<<Triple(PathW, <<"s", "u", "m", "m", "a", "r", "y">>, NullData),
              Triple(PathW, Get, Full)>>),
   Document(<<Triple(PathW, Get, Bare), Triple(PathX, Post, Full)>>),
   Document(<<Triple(PathW, Get, Full), Triple(PathW, GET, Bare)>>),
   Document(<<Triple(PathW, Get, Blank)>>),
   Document(<<Triple(PathX, Post, Bare), Triple(PathW, Get, NullData)>>),
   Document(<<Triple(PathW, Get, Bare), Triple(PathX, Get, Phrase)>>)}

\* Arguments of load_api_spec_from_json; file is what the file system holds at
\* the path.
LoadArgs ==
  {[json_file_path |-> Str(<<"f">>), file |-> f] : f \in Files}
  \cup {[json_file_path |-> Undef, file |-> [Document(<<>>) EXCEPT !.readable = FALSE]]}

\* ------------------------------------------------------------------ actions
Free(r) == req[r].pc \in {"idle", "done"}

\* The slot r was left no later than the slot o.
Older(r, o) == req[r].rid < req[o].rid \/ (req[r].rid = req[o].rid /\ r <= o)

\* The CallToolRequestSchema handler is entered, and the two flags are reset.
\* The invocation takes the free slot that was left first, so that the slots
\* show the invocations in progress and the last ones that ended.
Enter(r) ==
  /\ started < MaxRequests
  /\ Free(r)
  /\ \A o \in Slots : Free(o) => Older(r, o)
  /\ Cardinality({o \in Slots : ~Free(o)}) < overlap
  /\ started' = started + 1
  /\ lastCallFromFastMemory' = FALSE
  /\ lastSuccessfulCallDetails' = NoDetails

New(tool, args) ==
  [Idle EXCEPT !.pc = "run", !.rid = started + 1, !.tool = tool, !.args = args]

save_to_fast_memory(r) ==
  \E args \in SaveArgs :
    /\ Enter(r)
    /\ req' = [req EXCEPT ![r] =
                 save_to_fast_memory_begin(New("save_to_fast_memory", args), args)]
    /\ UNCHANGED <<fastMemoryDb, apiSpecDb, detached, wire, faults, clock, overlap>>

delete_from_fast_memory(r) ==
  \E args \in DeleteArgs :
    /\ Enter(r)
    /\ req' = [req EXCEPT ![r] =
                 delete_from_fast_memory_begin(New("delete_from_fast_memory", args), args)]
    /\ UNCHANGED <<fastMemoryDb, apiSpecDb, detached, wire, faults, clock, overlap>>

clear_fast_memory(r) ==
  /\ Enter(r)
  /\ req' = [req EXCEPT ![r] =
               clear_fast_memory_begin(New("clear_fast_memory", <<>>), <<>>)]
  /\ UNCHANGED <<fastMemoryDb, apiSpecDb, detached, wire, faults, clock, overlap>>

list_fast_memory(r) ==
  \E args \in ListArgs :
    /\ Enter(r)
    /\ req' = [req EXCEPT ![r] =
                 list_fast_memory_begin(New("list_fast_memory", args), args)]
    /\ UNCHANGED <<fastMemoryDb, apiSpecDb, detached, wire, faults, clock, overlap>>

\* A request that names no tool of the server.
unknown_tool(r) ==
  /\ Enter(r)
  /\ req' = [req EXCEPT ![r] = unknown_tool_begin(New("unknown_tool", <<>>))]
  /\ UNCHANGED <<fastMemoryDb, apiSpecDb, detached, wire, faults, clock, overlap>>

\* A request that names a tool and has no arguments member.
without_arguments(r) ==
  \E tool \in DestructuringTools :
    /\ Enter(r)
    /\ req' = [req EXCEPT ![r] = without_arguments_begin(New(tool, Undef))]
    /\ UNCHANGED <<fastMemoryDb, apiSpecDb, detached, wire, faults, clock, overlap>>

execute_api_call(r) ==
  \E args \in ExecuteArgs :
    /\ Enter(r)
    /\ req' = [req EXCEPT ![r] =
                 execute_api_call_begin(New("execute_api_call", args), args)]
    /\ UNCHANGED <<fastMemoryDb, apiSpecDb, detached, wire, faults, clock, overlap>>

natural_language_api_search(r) ==
  \E args \in SearchArgs :
    /\ Enter(r)
    /\ req' = [req EXCEPT ![r] =
                 natural_language_api_search_begin(
                   New("natural_language_api_search", args), args)]
    /\ UNCHANGED <<fastMemoryDb, apiSpecDb, detached, wire, faults, clock, overlap>>

search_api_endpoints(r) ==
  \E args \in EndpointSearchArgs :
    /\ Enter(r)
    /\ req' = [req EXCEPT ![r] =
                 search_api_endpoints_begin(New("search_api_endpoints", args), args)]
    /\ UNCHANGED <<fastMemoryDb, apiSpecDb, detached, wire, faults, clock, overlap>>

get_api_endpoint_details(r) ==
  \E args \in DetailsArgs :
    /\ Enter(r)
    /\ req' = [req EXCEPT ![r] =
                 get_api_endpoint_details_begin(
                   New("get_api_endpoint_details", args), args)]
    /\ UNCHANGED <<fastMemoryDb, apiSpecDb, detached, wire, faults, clock, overlap>>

load_api_spec_from_json(r) ==
  \E args \in LoadArgs :
    /\ Enter(r)
    /\ req' = [req EXCEPT ![r] =
                 load_api_spec_from_json_begin(
                   New("load_api_spec_from_json", args), args)]
    /\ UNCHANGED <<fastMemoryDb, apiSpecDb, detached, wire, faults, clock, overlap>>

send_raw_api_request(r) ==
  \E args \in RawArgs :
    /\ Enter(r)
    /\ LET ran == send_raw_api_request_begin(New("send_raw_api_request", args), args)
       IN /\ req' = [req EXCEPT ![r] = ran.q]
          /\ wire' = wire \cup ran.send
    /\ UNCHANGED <<fastMemoryDb, apiSpecDb, detached, faults, clock, overlap>>

\* The statement stmt as SQLite runs it on its database db at the time now.
RunStatement(stmt, db, now) ==
  CASE stmt.db = "fast_memory" /\ stmt.op = "select_path_method" ->
         SelectFastMemoryByPathMethod(db, stmt.path, stmt.method)
    [] stmt.db = "fast_memory" /\ stmt.op = "select_query" ->
         SelectFastMemoryByQuery(db, stmt.query)
    [] stmt.db = "fast_memory" /\ stmt.op = "upsert" -> UpsertFastMemory(db, stmt.p, now)
    [] stmt.db = "fast_memory" /\ stmt.op = "delete" -> DeleteFastMemoryById(db, stmt.id)
    [] stmt.db = "fast_memory" /\ stmt.op = "delete_all" -> DeleteAllFastMemory(db)
    [] stmt.db = "fast_memory" /\ stmt.op = "vacuum" -> Vacuum(db)
    [] stmt.db = "fast_memory" /\ stmt.op = "increment" -> IncrementUsage(db, stmt.id)
    [] stmt.db = "fast_memory" /\ stmt.op = "list" ->
         ListFastMemory(db, stmt.search_term, stmt.limit)
    [] stmt.db = "api_spec" /\ stmt.op = "select_path_method" ->
         SelectEndpoint(db, stmt.path, stmt.method)
    [] stmt.db = "api_spec" /\ stmt.op = "select_query" ->
         SelectEndpointsByQuery(db, stmt.query, stmt.max_results)
    [] stmt.db = "api_spec" /\ stmt.op = "select_search" ->
         SelectEndpointsSearch(db, stmt.query, stmt.limit)
    [] stmt.db = "api_spec" /\ stmt.op = "begin" -> BeginTransaction(db)
    [] stmt.db = "api_spec" /\ stmt.op = "insert_or_replace" ->
         InsertOrReplaceEndpoint(db, stmt.p)
    [] stmt.db = "api_spec" /\ stmt.op = "commit" -> Commit(db)
    [] stmt.db = "api_spec" /\ stmt.op = "rollback" -> Rollback(db)

\* The handler of q resumes with the outcome res of the statement it awaits.
Resume(q, res) ==
  CASE q.pc = "save_run" -> Ran(save_to_fast_memory_end(q, res))
    [] q.pc = "delete_run" -> Ran(delete_from_fast_memory_end(q, res))
    [] q.pc = "clear_delete" -> Ran(clear_fast_memory_deleted(q, res))
    [] q.pc = "clear_vacuum" -> Ran(clear_fast_memory_end(q, res))
    [] q.pc = "list_select" -> Ran(list_fast_memory_end(q, res))
    [] q.pc = "execute_lookup" -> execute_api_call_found(q, res)
    [] q.pc = "raw_lookup" -> Ran(send_raw_api_request_end(q, res))
    [] q.pc = "search_memory" -> Ran(natural_language_api_search_memory(q, res))
    [] q.pc = "search_spec" -> Ran(natural_language_api_search_end(q, res))
    [] q.pc = "details_select" -> Ran(get_api_endpoint_details_end(q, res))
    [] q.pc = "endpoints_select" -> Ran(search_api_endpoints_end(q, res))
    [] q.pc = "load_begin" -> Ran(load_api_spec_from_json_begun(q, res))
    [] q.pc = "load_insert" -> Ran(load_api_spec_from_json_inserted(q, res))
    [] q.pc = "load_commit" -> Ran(load_api_spec_from_json_committed(q, res))
    [] q.pc = "load_rollback" -> Ran(load_api_spec_from_json_rolled_back(q, res))

\* The effects of one run of the handler in slot r.
Apply(r, ran) ==
  /\ req' = [req EXCEPT ![r] = ran.q]
  /\ lastCallFromFastMemory' = (ran.fromFM \/ lastCallFromFastMemory)
  /\ lastSuccessfulCallDetails' = IF ran.setLast THEN ran.last ELSE lastSuccessfulCallDetails
  /\ wire' = wire \cup ran.send
  /\ detached' = detached \cup ran.spawn

DatabaseOf(stmt) == IF stmt.db = "fast_memory" THEN fastMemoryDb ELSE apiSpecDb

\* The environment may make a statement fail (disk I/O error, database busy).
FaultChoices == IF faults < MaxFaults THEN {FALSE, TRUE} ELSE {FALSE}

\* CURRENT_TIMESTAMP as a statement that uses it may read it: the second of the
\* statement before, or a later one.
Times(stmt) == IF stmt.op = "upsert" THEN clock..Min(clock + 1, MaxTime) ELSE {clock}

Outcome(stmt, fault, now) ==
  IF fault THEN SqlError(DatabaseOf(stmt), "disk I/O error")
  ELSE RunStatement(stmt, DatabaseOf(stmt), now)

Store(stmt, res) ==
  /\ fastMemoryDb' = IF stmt.db = "fast_memory" THEN res.db ELSE fastMemoryDb
  /\ apiSpecDb' = IF stmt.db = "api_spec" THEN res.db ELSE apiSpecDb

\* SQLite runs a statement and calls back.  With r a slot, it is the statement
\* the handler in r awaits, and the handler resumes (the promise of dbAll or
\* dbRun settles).  With r = 0 it is a statement nobody awaits: its error is
\* logged by the .catch of the call.
DbStep(r) ==
  \E fault \in FaultChoices :
    /\ faults' = IF fault THEN faults + 1 ELSE faults
    /\ UNCHANGED <<started, overlap>>
    /\ IF r = 0
       THEN /\ detached # {}
            /\ \E stmt \in detached :
                 /\ Store(stmt, Outcome(stmt, fault, clock))
                 /\ detached' = detached \ {stmt}
            /\ UNCHANGED <<lastCallFromFastMemory, lastSuccessfulCallDetails, req, wire,
                           clock>>
       ELSE /\ req[r].stmt.op # ""
            /\ \E now \in Times(req[r].stmt) :
                 LET res == Outcome(req[r].stmt, fault, now)
                 IN /\ Store(req[r].stmt, res)
                    /\ Apply(r, Resume(req[r], res))
                    /\ clock' = now

\* The n8n API answers, or the request fails, and the handler resumes.
HttpStep(r) ==
  /\ req[r].pc \in {"execute_http", "raw_http"}
  /\ \E response \in Responses :
       Apply(r, IF req[r].pc = "execute_http"
                THEN execute_api_call_end(req[r], response, lastCallFromFastMemory)
                ELSE send_raw_api_request_answered(req[r], response))
  /\ UNCHANGED <<fastMemoryDb, apiSpecDb, started, faults, clock, overlap>>

\* fs.readFile calls back, and the handler resumes.
FsStep(r) ==
  /\ req[r].pc = "load_read"
  /\ Apply(r, Ran(load_api_spec_from_json_read(req[r], req[r].args.file)))
  /\ UNCHANGED <<fastMemoryDb, apiSpecDb, started, faults, clock, overlap>>

\* The server after main(): no tool has been called.
InitServer ==
  /\ apiSpecDb = EmptyDb
  /\ lastCallFromFastMemory = FALSE
  /\ lastSuccessfulCallDetails = NoDetails
  /\ req = [r \in Slots |-> Idle]
  /\ detached = {}
  /\ wire = {}
  /\ started = 0
  /\ faults = 0
  /\ clock = 0

InitStores == fastMemoryDb = EmptyDb /\ InitServer

\* Invocations may overlap: the transport hands over a request while the
\* handler of another awaits.
Init == InitStores /\ overlap = 2

\* The saves of an earlier run of the server, whose fast_memory.db is on disk.
EarlierSaves ==
  <<[natural_language_query |-> Str(QueryAB), api_path |-> Str(PathW),
     api_method |-> Str(Get), api_params |-> Undef, api_data |-> Undef,
     description |-> Undef],
    [natural_language_query |-> Str(<<"B", "c">>), api_path |-> Str(PathX),
     api_method |-> Str(Post), api_params |-> Limit5, api_data |-> NameX,
     description |-> Str(<<"d">>)]>>

\* The values save_to_fast_memory binds for args.
Bound(args) == save_to_fast_memory_begin(Idle, args).stmt.p

\* fast_memory.db as setupDatabases opens it after that run: CREATE TABLE IF NOT
\* EXISTS keeps the rows and sqlite_sequence, and last_insert_rowid() of the new
\* connection is 0.
KeptFastMemory ==
  LET one == UpsertFastMemory(EmptyDb, Bound(EarlierSaves[1]), 0).db
      two == UpsertFastMemory(one, Bound(EarlierSaves[2]), 0).db
  IN [two EXCEPT !.lastID = 0]

\* The server is started again on the file of an earlier run, and the client
\* sends a request after it has the result of the one before.
InitRestarted ==
  /\ fastMemoryDb = KeptFastMemory
  /\ InitServer
  /\ overlap = 1

\* The server is started again on the file of an earlier run, and the client
\* sends a request while the one before is in progress.
InitOverlapping ==
  /\ fastMemoryDb = KeptFastMemory
  /\ InitServer
  /\ overlap = 2

\* The client sends a request after it has the result of the one before.
InitOneAtATime == InitStores /\ overlap = 1

Next ==
  \/ \E r \in Slots :
       \/ save_to_fast_memory(r)
       \/ delete_from_fast_memory(r)
       \/ clear_fast_memory(r)
       \/ list_fast_memory(r)
       \/ unknown_tool(r)
       \/ without_arguments(r)
       \/ execute_api_call(r)
       \/ natural_language_api_search(r)
       \/ search_api_endpoints(r)
       \/ get_api_endpoint_details(r)
       \/ load_api_spec_from_json(r)
       \/ send_raw_api_request(r)
       \/ HttpStep(r)
       \/ FsStep(r)
  \/ \E r \in Slots \cup {0} : DbStep(r)

Spec == Init /\ [][Next]_vars

OneAtATime == InitOneAtATime /\ [][Next]_vars

Restarted == InitRestarted /\ [][Next]_vars

Overlapping == InitOverlapping /\ [][Next]_vars

\* ------------------------------------------------------------------- claims
\* The request in r came with an arguments object, which the tools that
\* destructure their arguments need.
WithArguments(r) == req[r].tool \in DestructuringTools => req[r].args # Undef

\* The invocation in r of this tool, with its arguments, has ended.
Done(r, tool) == req[r].pc = "done" /\ req[r].tool = tool /\ WithArguments(r)

\* The invocation in r has returned a result that is no error.
Succeeded(r, tool) == Done(r, tool) /\ ~req[r].result.isError

\* This step runs the INSERT ... ON CONFLICT of the save_to_fast_memory in r,
\* and the statement does not fail.
SaveRuns(r) ==
  /\ req[r].pc = "save_run"
  /\ req'[r].pc = "done"
  /\ ~req'[r].result.isError

RowsOfQuery(rows, query) == {row \in rows : row.natural_language_query = query}

\* C1: a save_to_fast_memory whose natural_language_query no row holds adds
\* exactly one row, with that query and usage_count = 0, and leaves every other
\* row as it was.
C1_SaveOfNewQueryAddsOneRow ==
  [][\A r \in Slots :
       (SaveRuns(r) /\ RowsOfQuery(fastMemoryDb.rows, req[r].args.natural_language_query) = {})
       => \E row \in fastMemoryDb'.rows :
            /\ row \notin fastMemoryDb.rows
            /\ fastMemoryDb'.rows = fastMemoryDb.rows \cup {row}
            /\ row.natural_language_query = req[r].args.natural_language_query
            /\ row.usage_count = 0]_vars

\* A save has just inserted a second row: the row with the id it reports holds
\* its query, beside the row of another query.
C1_Witness ==
  \E r \in Slots :
    /\ Succeeded(r, "save_to_fast_memory")
    /\ Cardinality(fastMemoryDb.rows) = 2
    /\ \E row \in fastMemoryDb.rows :
         /\ row.id = req[r].out.id
         /\ row.id = fastMemoryDb.seq
         /\ row.natural_language_query = req[r].args.natural_language_query
         /\ row.usage_count = 0

UniqueQueries(rows) ==
  \A a, b \in rows : a.natural_language_query = b.natural_language_query => a = b

\* The values save_to_fast_memory binds for its arguments.
SavedAs(row, args) ==
  /\ row.natural_language_query = args.natural_language_query
  /\ row.api_path = args.api_path
  /\ row.api_method = Str(toUpperCase(args.api_method.s))
  /\ row.api_params = Str(JSONstringify(Default(args.api_params, Obj(<<>>))))
  /\ row.api_data = Str(JSONstringify(Default(args.api_data, Obj(<<>>))))
  /\ row.description = Default(args.description, Str(<<>>))

\* C2: no two rows of fast_memory ever have the same natural_language_query; a
\* save whose query a row holds leaves the number of rows as it was, and the
\* row of the query then has the api_path, api_method, api_params, api_data and
\* description of the save.
C2_QueryIsUniqueAndSaveOverwrites ==
  [][/\ UniqueQueries(fastMemoryDb'.rows)
     /\ \A r \in Slots :
          (SaveRuns(r)
           /\ RowsOfQuery(fastMemoryDb.rows, req[r].args.natural_language_query) # {})
          => /\ Cardinality(fastMemoryDb'.rows) = Cardinality(fastMemoryDb.rows)
             /\ \A row \in RowsOfQuery(fastMemoryDb'.rows,
                                       req[r].args.natural_language_query) :
                  SavedAs(row, req[r].args)]_vars

\* A save has just overwritten the only row there is: one rowid was ever
\* inserted, two were drawn, and the row holds the arguments of the save, which
\* differ from those the other save of this query has.
C2_Witness ==
  \E r \in Slots :
    /\ Succeeded(r, "save_to_fast_memory")
    /\ req[r].args.api_path = Str(PathX)
    /\ fastMemoryDb.lastID = 1
    /\ fastMemoryDb.seq = 2
    /\ \E o \in Slots :
         /\ Succeeded(o, "save_to_fast_memory")
         /\ req[o].rid + 1 = req[r].rid
         /\ req[o].args.natural_language_query = req[r].args.natural_language_query
         /\ req[o].args.api_path = Str(PathW)
    /\ \E row \in fastMemoryDb.rows :
         /\ fastMemoryDb.rows = {row}
         /\ SavedAs(row, req[r].args)

\* The key of a path item is the name of an HTTP method.
IsMethod(item) == toLowerCase(item.method) \in HttpMethods

\* The method-key pairs of a document that get_api_endpoint_details(path, method)
\* asks for: the same path, and the same method but for the case of its letters.
AskedFor(paths, args) ==
  {i \in DOMAIN paths :
     /\ IsMethod(paths[i])
     /\ paths[i].apiPath = args.path.s
     /\ toUpperCase(paths[i].method) = toUpperCase(args.method.s)}

\* The invocation in o is the one that followed the invocation in r.
Follows(o, r) == req[o].pc # "idle" /\ req[r].pc # "idle" /\ req[o].rid = req[r].rid + 1

\* The load in r put every endpoint of its document into the catalog, and the
\* get_api_endpoint_details in o, the next invocation, met no storage fault.
LoadedThenAsked(r, o) ==
  /\ Succeeded(r, "load_api_spec_from_json")
  /\ req[r].out.endpointsFailed = 0
  /\ Done(o, "get_api_endpoint_details")
  /\ Follows(o, r)
  /\ Truthy(req[o].args.path) /\ Truthy(req[o].args.method)
  /\ req[o].result.msg # "disk I/O error"

\* The result carries the values v of the six members of an endpoint.
Carries(out, v) ==
  /\ out.summary = v.summary
  /\ out.description = v.description
  /\ out.parameters = v.parameters
  /\ out.requestBody = v.requestBody
  /\ out.responses = v.responses
  /\ out.tags = v.tags

\* A member the document does not have is null in the result.
AbsentAsNull(endpointData) ==
  [summary |-> Default(endpointData.summary, Null),
   description |-> Default(endpointData.description, Null),
   parameters |-> Default(endpointData.parameters, Null),
   requestBody |-> Default(endpointData.requestBody, Null),
   responses |-> Default(endpointData.responses, Null),
   tags |-> Default(endpointData.tags, Null)]

\* A member that is absent or falsy (an empty string) is null in the result.
FalsyAsNull(endpointData) ==
  [summary |-> OrElse(endpointData.summary, Null),
   description |-> OrElse(endpointData.description, Null),
   parameters |-> OrElse(endpointData.parameters, Null),
   requestBody |-> OrElse(endpointData.requestBody, Null),
   responses |-> OrElse(endpointData.responses, Null),
   tags |-> OrElse(endpointData.tags, Null)]

\* C3, as claimed: for every (path, method-key) pair of a loaded document, a
\* later get_api_endpoint_details(path, m), m the method in any letter case,
\* returns the endpoint with the summary, description, parameters, requestBody,
\* responses and tags that the document has for the pair.
C3_Original ==
  \A r, o \in Slots :
    LoadedThenAsked(r, o)
    => \A i \in AskedFor(req[r].args.file.paths, req[o].args) :
         /\ Succeeded(o, "get_api_endpoint_details")
         /\ Carries(req[o].out, AbsentAsNull(req[r].args.file.paths[i].endpointData))

\* C3, amended: for every (path, method-key) pair of a loaded document, a later
\* get_api_endpoint_details(path, m), m the method in any letter case, returns
\* the one endpoint stored for the path and the upper-cased method: it has the
\* members of the last key of the path item that is this method in some letter
\* case, and every member that is absent or falsy there (an empty summary) is
\* null.
C3_DetailsReturnWhatWasLoaded ==
  \A r, o \in Slots :
    LoadedThenAsked(r, o)
    => \A i \in AskedFor(req[r].args.file.paths, req[o].args) :
         /\ Succeeded(o, "get_api_endpoint_details")
         /\ (\A j \in AskedFor(req[r].args.file.paths, req[o].args) : j <= i)
            => Carries(req[o].out, FalsyAsNull(req[r].args.file.paths[i].endpointData))

\* A document with all six members on the key get has been loaded, and the
\* details asked for with the method GET have been returned, with their tags.
C3_Witness ==
  \E r, o \in Slots :
    /\ LoadedThenAsked(r, o)
    /\ Succeeded(o, "get_api_endpoint_details")
    /\ req[o].args.method = Str(GET)
    /\ \E i \in AskedFor(req[r].args.file.paths, req[o].args) :
         /\ req[r].args.file.paths[i].method = Get
         /\ req[r].args.file.paths[i].endpointData.tags = TagT
         /\ req[o].out.tags = TagT
         /\ req[o].out.requestBody = NameX

UniqueEndpoints(rows) == \A a, b \in rows : (a.path = b.path /\ a.method = b.method) => a = b

EndpointsOf(rows, apiPath, method) ==
  {row \in rows : row.path = Str(apiPath) /\ row.method = Str(toUpperCase(method))}

\* The last key of the document that names the path and method of the key i.
LastOfItsKey(paths, i) ==
  \A j \in DOMAIN paths :
    (IsMethod(paths[j]) /\ paths[j].apiPath = paths[i].apiPath
     /\ toUpperCase(paths[j].method) = toUpperCase(paths[i].method)) => j <= i

\* This step runs the COMMIT of the load_api_spec_from_json in r, which ends
\* with a result that counts no failed endpoint.
LoadCommits(r) ==
  /\ req[r].pc = "load_commit"
  /\ req'[r].pc = "done"
  /\ ~req'[r].result.isError
  /\ req'[r].out.endpointsFailed = 0

Matching(rows, args) ==
  {row \in rows :
     row.api_path = args.path /\ row.api_method = Str(toUpperCase(args.method.s))}

\* The execute_api_call in r has ended; it had a path and a method, it is the
\* last invocation there was, and no statement of its met a disk error.
Executed(r) ==
  /\ Done(r, "execute_api_call")
  /\ Truthy(req[r].args.path) /\ Truthy(req[r].args.method)
  /\ req[r].rid = started
  /\ req[r].result.msg # "disk I/O error"

\* The invocation in r sent a request to the n8n API.
Called(r) == \E w \in wire : w.rid = req[r].rid

\* C5: the fast-memory lookup of execute_api_call for (path, method) completes
\* without a storage error, and it returns an entry exactly when a saved entry
\* has api_path = path and api_method = the method in upper case.  A step that
\* ends the lookup, the disk not failing, takes the handler to the remote call,
\* with an entry if and only if a row matches.
C5_LookupFindsTheEntry ==
  [][\A r \in Slots :
       (req[r].pc = "execute_lookup" /\ req'[r].pc # "execute_lookup" /\ faults' = faults)
       => /\ req'[r].pc = "execute_http"
          /\ req'[r].loc.hit <=> (Matching(fastMemoryDb.rows, req[r].args) # {})]_vars

\* C6: when execute_api_call is called for a (path, method) that an entry with
\* usage_count = N is bound to, the usage_count of the entry becomes N + 1.
\* Once the call has ended, no statement is left to run and no statement has
\* failed, an entry bound to its path and method has been counted at least once.
C6_HitIsCounted ==
  \A r \in Slots :
    (Executed(r) /\ faults = 0 /\ detached = {}
     /\ Matching(fastMemoryDb.rows, req[r].args) # {})
    => \E row \in Matching(fastMemoryDb.rows, req[r].args) : row.usage_count >= 1

\* The n8n API refused or failed the request of the invocation in r.
RemoteFailed(r) ==
  /\ req[r].result.kind = "thrown"
  /\ \E response \in Responses :
       ~response.ok /\ req[r].result.msg = RequestError(response).msg

\* C7: whatever becomes of the increment of the usage count, the
\* execute_api_call that an entry matches performs the remote call, and it
\* returns what the answer of the n8n API makes it return: the response, or the
\* error of the request, and no error of the storage.
C7_HitCallsTheApi ==
  \A r \in Slots :
    (Executed(r) /\ Matching(fastMemoryDb.rows, req[r].args) # {})
    => /\ Called(r)
       /\ Succeeded(r, "execute_api_call") \/ RemoteFailed(r)

\* C8: with requests handled one at a time, an execute_api_call that the n8n
\* API answers is successful, and it returns the save hint, with its path and
\* method, exactly when no entry matches its (path, method), and the note of
\* the entry's description or id, without a hint, exactly when one matches.
C8_HintOrProvenance ==
  \A r \in Slots :
    (Executed(r) /\ ~RemoteFailed(r))
    => /\ Succeeded(r, "execute_api_call")
       /\ req[r].out.saveSuggestion.set
          <=> (Matching(fastMemoryDb.rows, req[r].args) = {})
       /\ (req[r].out.messagePrefix # Str(<<>>))
          <=> (Matching(fastMemoryDb.rows, req[r].args) # {})
       /\ req[r].out.saveSuggestion.set
          => /\ req[r].out.saveSuggestion.path = req[r].args.path.s
             /\ req[r].out.saveSuggestion.method = toUpperCase(req[r].args.method.s)

\* What the caller gave, or else what the cell of the entry holds.
GivenOrStored(given, cell) == IF given # Undef THEN given ELSE JSONparse(cell.s).v

\* C9: on a hit, execute_api_call makes the remote call with the params and the
\* body of the caller where the caller gave them, and with the api_params and
\* api_data of the entry where the caller did not.
C9_HitUsesCallerOrStored ==
  \A r \in Slots :
    (Executed(r) /\ Matching(fastMemoryDb.rows, req[r].args) # {})
    => \E w \in wire, row \in Matching(fastMemoryDb.rows, req[r].args) :
         /\ w.rid = req[r].rid
         /\ w.call.params = GivenOrStored(req[r].args.params, row.api_params)
         /\ w.call.data = GivenOrStored(req[r].args.data, row.api_data)

\* This step is one of the natural_language_api_search in r: its entry, or the
\* end of one of its two selects.
SearchSteps(r) ==
  /\ req'[r].tool = "natural_language_api_search"
  /\ req'[r].args # Undef
  /\ \/ req'[r].rid # req[r].rid
     \/ req[r].pc \in {"search_memory", "search_spec"} /\ req'[r].pc # req[r].pc

\* This step ends the natural_language_api_search in r with an entry of fast
\* memory.
SearchHits(r) ==
  /\ req[r].pc = "search_memory"
  /\ req'[r].pc = "done"
  /\ ~req'[r].result.isError

\* The entry returned is the binding of the row: its path, its method, and
\* the values whose JSON texts its api_params and api_data are.
BindingOf(entry, row) ==
  /\ entry.id = row.id
  /\ entry.api_path = row.api_path
  /\ entry.api_method = row.api_method
  /\ entry.api_params.t # "undefined"
  /\ JSONstringify(entry.api_params) = row.api_params.s
  /\ entry.api_data.t # "undefined"
  /\ JSONstringify(entry.api_data) = row.api_data.s

\* C10: natural_language_api_search never issues a remote API call: no step of
\* its sends a request, starts a statement nobody awaits or changes a store,
\* and no request on the wire is one of its; on a hit it returns the stored
\* binding (api_path, api_method, api_params, api_data) of a row whose query
\* contains the query asked.
C10_SearchCallsNothing ==
  [][\A r \in Slots :
       /\ SearchSteps(r)
          => /\ wire' = wire
             /\ detached' = detached
             /\ fastMemoryDb' = fastMemoryDb
             /\ apiSpecDb' = apiSpecDb
             /\ \A w \in wire' : w.rid # req'[r].rid
       /\ SearchHits(r)
          => \E row \in fastMemoryDb.rows :
               /\ LikeContains(row.natural_language_query, req[r].args.query.s)
               /\ BindingOf(req'[r].out.entry, row)]_vars

\* A search for "b" has returned the entry saved for a query that contains b,
\* with the params { l: 5 } that the save stored as text.
C10_Witness ==
  \E r, o \in Slots :
    /\ Succeeded(r, "natural_language_api_search")
    /\ req[r].result.msg = "Found match in fast memory."
    /\ req[r].args.query = Str(<<"b">>)
    /\ Succeeded(o, "save_to_fast_memory")
    /\ Follows(r, o)
    /\ req[o].args.api_params = Limit5
    /\ req[r].out.entry.api_params = Limit5
    /\ req[r].out.entry.api_path = req[o].args.api_path
    /\ \A w \in wire : w.rid # req[r].rid

\* The rows whose natural_language_query matches LIKE '%query%': the letters
\* without regard to case, % and _ of the query as wildcards.
Like_rows(rows, query) == {row \in rows : LikeContains(row.natural_language_query, query)}

\* The rows whose natural_language_query has the query in it, character for
\* character.
Containing(rows, query) ==
  {row \in rows : Includes(row.natural_language_query.s, query)}

\* This step ends the select on fast_memory of the natural_language_api_search
\* in r, and the disk does not fail.
MemorySearched(r) ==
  /\ req[r].pc = "search_memory"
  /\ req'[r].pc # "search_memory"
  /\ faults' = faults

\* After the step the search in r has returned an entry with an id of ids, and
\* no results of the catalog.
HitAmong(r, ids) ==
  /\ req'[r].pc = "done"
  /\ ~req'[r].result.isError
  /\ req'[r].result.msg = "Found match in fast memory."
  /\ req'[r].out.entry.id \in ids
  /\ req'[r].out.results = <<>>

\* C11, as claimed: if an entry's natural_language_query contains the query as
\* a substring, the result is a hit for such an entry, without catalog results;
\* the catalog is searched only when no entry contains the query.
C11_Original ==
  [][\A r \in Slots :
       MemorySearched(r)
       => LET found == Containing(fastMemoryDb.rows, req[r].args.query.s)
          IN /\ found # {} => HitAmong(r, {row.id : row \in found})
             /\ req'[r].pc = "search_spec" => found = {}]_vars

\* C11, amended: natural_language_api_search consults fast memory first.  If
\* an entry's natural_language_query matches LIKE '%query%' (which every entry
\* that contains the query does, and also one that contains it in another
\* letter case), the result is a hit for the matching entry of the lowest id,
\* without catalog results; the catalog is searched exactly when no entry
\* matches.
C11_FastMemoryFirst ==
  [][\A r \in Slots :
       MemorySearched(r)
       => LET found == Like_rows(fastMemoryDb.rows, req[r].args.query.s)
          IN /\ Containing(fastMemoryDb.rows, req[r].args.query.s) \subseteq found
             /\ found # {}
                => HitAmong(r, {row.id : row \in found})
                   /\ \A row \in found : req'[r].out.entry.id <= row.id
             /\ (req'[r].pc = "search_spec") <=> (found = {})]_vars

\* A search for "B" has returned the entry of "ab", the first of the two
\* entries that match it; the other one is "Bc".
C11_Witness ==
  \E r \in Slots :
    /\ Succeeded(r, "natural_language_api_search")
    /\ req[r].args.query = Str(<<"B">>)
    /\ req[r].result.msg = "Found match in fast memory."
    /\ req[r].out.results = <<>>
    /\ req[r].out.entry.natural_language_query = Str(QueryAB)
    /\ Cardinality(Like_rows(fastMemoryDb.rows, <<"B">>)) = 2
    /\ Cardinality(Containing(fastMemoryDb.rows, <<"B">>)) = 1

\* The text has the query in it, the letters compared without regard to case.
Contains(cell, query) ==
  cell.t = "str" /\ Includes(toUpperCase(cell.s), toUpperCase(query))

\* The first word of a query.
FirstWord(query) == SubSeq(query, 1, Run(query, {" "}, FALSE))

\* The natural_language_api_search in r has ended; it is the last invocation
\* there was, it had a query that no entry of fast memory matches, and it met
\* no disk error.
SearchedCatalog(r) ==
  /\ Done(r, "natural_language_api_search")
  /\ Truthy(req[r].args.query)
  /\ req[r].rid = started
  /\ req[r].result.msg # "disk I/O error"
  /\ \A row \in fastMemoryDb.rows :
       ~Contains(row.natural_language_query, req[r].args.query.s)

\* The endpoint row is one of the results.
InResults(results, row) == \E i \in DOMAIN results : results[i].id = row.id

\* C12, as claimed: natural_language_api_search with a query of two words
\* ("deploy workflow") and max_results 5, when no entry of fast memory matches
\* and the catalog holds an endpoint whose summary contains the first word
\* ("deploy"), returns that endpoint in its results.
C12_Original ==
  \A r \in Slots :
    (/\ SearchedCatalog(r)
     /\ req[r].args.max_results = Num(5)
     /\ Len(FirstWord(req[r].args.query.s)) < Len(req[r].args.query.s))
    => \A row \in apiSpecDb.rows :
         Contains(row.summary, FirstWord(req[r].args.query.s))
         => Succeeded(r, "natural_language_api_search")
            /\ InResults(req[r].out.results, row)

\* The endpoints that have the whole query in their summary, description, path
\* or tags.
WholeQueryIn(rows, query) ==
  {row \in rows :
     \/ Contains(row.summary, query)
     \/ Contains(row.description, query)
     \/ Contains(row.path, query)
     \/ Contains(row.tags, query)}

\* C12, amended: natural_language_api_search, when no entry of fast memory
\* matches, returns the endpoints of the catalog that have the whole query
\* ("deploy workflow", not one word of it) in their summary, description, path
\* or tags: all of them up to max_results (5 by default), those of shorter
\* summaries first, and the text "no match" when there is none.
C12_CatalogResultsHaveTheWholeQuery ==
  \A r \in Slots :
    SearchedCatalog(r)
    => LET found == WholeQueryIn(apiSpecDb.rows, req[r].args.query.s)
           results == req[r].out.results
           max_results == Default(req[r].args.max_results, Num(5)).n
       IN /\ Succeeded(r, "natural_language_api_search")
          /\ Len(results) = Min(Cardinality(found), max_results)
          /\ \A i \in DOMAIN results : \E row \in found : row.id = results[i].id
          /\ \A i, j \in DOMAIN results :
               i < j => /\ results[i].id # results[j].id
                        /\ SummaryLength(results[i]) <= SummaryLength(results[j])
          /\ (found = {}) <=>
               (req[r].result.msg = "No match found in fast memory or API spec")

\* A document with the summaries "w" and "w x" has been loaded, and the search
\* for "w x" with max_results 5 has returned the endpoint of "w x" alone.
C12_Witness ==
  \E r, o \in Slots :
    /\ SearchedCatalog(r)
    /\ Succeeded(o, "load_api_spec_from_json")
    /\ Follows(r, o)
    /\ req[r].args.query = Str(<<"w", " ", "x">>)
    /\ req[r].args.max_results = Num(5)
    /\ Len(req[r].out.results) = 1
    /\ req[r].out.results[1].summary = Str(<<"w", " ", "x">>)
    /\ \E row \in apiSpecDb.rows : row.summary = Str(<<"w">>)

\* C13: a natural_language_api_search whose query matches neither an entry of
\* fast memory nor an endpoint of the catalog changes neither store at any of
\* its steps, and it ends with a returned result that has no error indicator
\* and says "no match"; nothing is thrown.
C13_NoMatchIsNoError ==
  [][\A r \in Slots :
       (/\ SearchSteps(r)
        /\ faults' = faults
        /\ Truthy(req'[r].args.query)
        /\ \A row \in fastMemoryDb.rows :
             ~Contains(row.natural_language_query, req'[r].args.query.s)
        /\ WholeQueryIn(apiSpecDb.rows, req'[r].args.query.s) = {})
       => /\ fastMemoryDb' = fastMemoryDb
          /\ apiSpecDb' = apiSpecDb
          /\ req'[r].pc = "done"
             => /\ req'[r].result.kind = "returned"
                /\ ~req'[r].result.isError
                /\ req'[r].result.type = "text"
                /\ req'[r].result.msg = "No match found in fast memory or API spec"
                /\ req'[r].out.results = <<>>]_vars

\* Endpoints have been loaded, and the search for "b", which none of them has,
\* has returned the text "no match": a result, and no error.
C13_Witness ==
  \E r, o \in Slots :
    /\ Succeeded(r, "natural_language_api_search")
    /\ req[r].args.query = Str(<<"b">>)
    /\ req[r].result.kind = "returned"
    /\ req[r].result.msg = "No match found in fast memory or API spec"
    /\ Succeeded(o, "load_api_spec_from_json")
    /\ Follows(r, o)
    /\ Cardinality(apiSpecDb.rows) = 2
    /\ fastMemoryDb.rows = {}

\* The request that the invocation in r sent to the n8n API.
CallsOf(r) == {w.call : w \in {v \in wire : v.rid = req[r].rid}}

\* name=value&name=value of a map of query parameters, after a question mark;
\* nothing for the empty map.
QueryString(params) ==
  IF params.kv = <<>> THEN <<>>
  ELSE <<"?">> \o Join([i \in 1..Len(params.kv) |->
                          params.kv[i][1] \o <<"=">> \o params.kv[i][2]], <<"&">>)

\* The body segment of a raw request: a space and the JSON text of the body;
\* nothing for the body null.
BodySegment(data) == IF data = Null THEN <<>> ELSE <<" ">> \o JSONstringify(data)

\* "METHOD path[?query][ JSON-body]" put together from the four parts.
Composed(call) ==
  call.method \o <<" ">> \o call.url \o QueryString(call.params) \o BodySegment(call.data)

\* A raw request with its first word in upper case.
UpperMethod(raw) ==
  toUpperCase(SubSeq(raw, 1, Run(raw, {" "}, FALSE))) \o Drop(raw, Run(raw, {" "}, FALSE))

\* C14: send_raw_api_request decomposes "METHOD path[?query][ JSON-body]" into
\* the method, the path without the query string, the map of the query
\* parameters and the parsed JSON body, null without a body segment: the four
\* parts of the request it sends, put together again, are the raw request; and
\* "GET /w?l=5" gives the method GET, the path /w, the params { l: "5" } and
\* the body null.
C14_RawRequestIsDecomposed ==
  \A r \in Slots :
    req[r].tool = "send_raw_api_request"
    => \A call \in CallsOf(r) :
         /\ Composed(call) = UpperMethod(req[r].args.raw_request.s)
         /\ ~(\E i \in DOMAIN call.url : call.url[i] \in {"?", " "})
         /\ req[r].args.raw_request.s = <<"G", "E", "T", " ", "/", "w", "?", "l", "=", "5">>
            => /\ call.method = GET
               /\ call.url = PathW
               /\ call.params = Limit5
               /\ call.data = Null

\* 'GET /w?l=5' has been sent as GET /w with the params { l: "5" } and no body,
\* and the n8n API has answered it.
C14_Witness ==
  \E r \in Slots :
    /\ req[r].tool = "send_raw_api_request"
    /\ req[r].pc = "raw_lookup"
    /\ req[r].args.raw_request.s = <<"G", "E", "T", " ", "/", "w", "?", "l", "=", "5">>
    /\ \E call \in CallsOf(r) :
         call.url = PathW /\ call.params = Limit5 /\ call.data = Null

\* The words of a raw request: what stands before the first run of spaces,
\* between the first and the second, and after the second.
RawWords(raw) ==
  LET str == Trim(raw)
      first == SubSeq(str, 1, Run(str, Whitespace, FALSE))
      rest == TrimStart(Drop(str, Len(first)))
      second == SubSeq(rest, 1, Run(rest, Whitespace, FALSE))
      third == TrimStart(Drop(rest, Len(second)))
  IN [first |-> first, second |-> second, third |-> third]

\* The raw request lacks a method (its first word is no name of an HTTP
\* method) or a path (no word that begins with a slash follows), or it has a
\* body segment that is no JSON text.
Malformed(raw_request) ==
  \/ raw_request.t # "str"
  \/ LET words == RawWords(raw_request.s)
     IN \/ toLowerCase(words.first) \notin HttpMethods
        \/ words.second = <<>>
        \/ Head(words.second) # "/"
        \/ words.third # <<>> /\ ~JSONparse(words.third).ok

\* C15: a send_raw_api_request whose string lacks a method or a path, or whose
\* body segment is not valid JSON, issues no remote API call, and it fails with
\* an invalid-input error.
C15_MalformedRawIsRefused ==
  \A r \in Slots :
    (/\ req[r].tool = "send_raw_api_request"
     /\ WithArguments(r)
     /\ Malformed(req[r].args.raw_request))
    => /\ CallsOf(r) = {}
       /\ req[r].pc = "done"
       /\ req[r].result.kind = "thrown"
       /\ req[r].result.code = InvalidParams

\* The call is the request that execute_api_call makes of args when no entry
\* supplies params or data: args are the decomposition of the raw request that
\* was sent as call.
DecomposedAs(call, args) ==
  /\ Truthy(args.path) /\ Truthy(args.method)
  /\ call.url = args.path.s
  /\ call.method = toUpperCase(args.method.s)
  /\ call.params = Default(args.params, Obj(<<>>))
  /\ call.data = Default(args.data, Obj(<<>>))

\* C16: send_raw_api_request runs the structured-resolution logic of
\* execute_api_call.  Both check fast memory before the remote call: while the
\* lookup of an invocation is awaited, it has sent no request.  And for the
\* same store and the same decomposed (method, path, params, body) both do the
\* same: of an execute_api_call and a send_raw_api_request that follow each
\* other without a storage fault, the one has sent the request the other has.
C16_RawRunsTheLogicOfExecute ==
  /\ \A r \in Slots :
       req[r].pc \in {"execute_lookup", "raw_lookup"} => CallsOf(r) = {}
  /\ \A r, o \in Slots :
       (/\ Done(r, "execute_api_call")
        /\ Done(o, "send_raw_api_request")
        /\ Follows(r, o) \/ Follows(o, r)
        /\ faults = 0
        /\ \E call \in CallsOf(o) : DecomposedAs(call, req[r].args))
       => CallsOf(r) = CallsOf(o)

\* The first 5000 characters and the marker for a text longer than that, and
\* the text itself otherwise.
CutAt5000(text) ==
  IF Len(text) > 5000
  THEN SubSeq(text, 1, 5000) \o
       <<"\n", ".", ".", ".", " ", "(", "R", "e", "s", "p", "o", "n", "s", "e", " ",
         "t", "r", "u", "n", "c", "a", "t", "e", "d", ")">>
  ELSE text

\* The send_raw_api_request in r has ended; it is the last invocation there
\* was, it has sent its request, and neither the n8n API nor the disk failed it.
RawAnswered(r) ==
  /\ Done(r, "send_raw_api_request")
  /\ req[r].rid = started
  /\ CallsOf(r) # {}
  /\ ~RemoteFailed(r)
  /\ req[r].result.msg # "disk I/O error"

\* C17: execute_api_call and send_raw_api_request return the serialized body of
\* the response: cut to its first 5000 characters and the truncation marker
\* when it is longer than 5000 characters, and unmodified otherwise.
C17_ResponseTextIsCutAt5000 ==
  \A r \in Slots :
    ((Executed(r) /\ ~RemoteFailed(r)) \/ RawAnswered(r))
    => /\ ~req[r].result.isError
       /\ \E response \in Responses :
            /\ response.ok
            /\ req[r].out.responseText = CutAt5000(JSONstringify(response.data))

\* This step runs the DELETE FROM fast_memory of the clear_fast_memory in r,
\* and the statement does not fail.
ClearDeletes(r) == req[r].pc = "clear_delete" /\ req'[r].pc = "clear_vacuum"

\* This step ends the clear_fast_memory in r with its message.
ClearReports(r) ==
  /\ req[r].pc = "clear_vacuum"
  /\ req'[r].pc = "done"
  /\ ~req'[r].result.isError

\* The list_fast_memory in o is the next invocation after the clear_fast_memory
\* in r, and both returned a result that is no error.
ClearedThenListed(r, o) ==
  /\ Follows(o, r)
  /\ Succeeded(r, "clear_fast_memory")
  /\ Succeeded(o, "list_fast_memory")

\* C18: the count that clear_fast_memory puts into its message is the number of
\* rows fast_memory held when its DELETE ran, the DELETE leaves no row, and a
\* list_fast_memory that is the next invocation after a clear_fast_memory
\* returns no row.
C18_ClearCountsAndEmpties ==
  /\ [][\A r \in DOMAIN req :
          /\ ClearDeletes(r)
             => /\ req'[r].out.changes = Cardinality(fastMemoryDb.rows)
                /\ fastMemoryDb'.rows = {}
          /\ ClearReports(r) => req'[r].out.changes = req[r].out.changes]_vars
  /\ [](\A r, o \in DOMAIN req :
          ClearedThenListed(r, o) => req[o].out.rows = <<>>)

\* A clear_fast_memory reported the two entries an earlier run had saved, and
\* the list_fast_memory after it returned no row.
C18_Witness ==
  \E r, o \in DOMAIN req :
    /\ ClearedThenListed(r, o)
    /\ req[r].out.changes = 2
    /\ req[o].out.rows = <<>>

\* The statuses of the failed remote calls.
FailedStatuses == {response.status : response \in {a \in Responses : ~a.ok}}

\* The four kinds of a failed remote call, by the status of the n8n API.
KindOfStatus(status) ==
  CASE status \in {401, 403} -> "AuthError"
    [] status = 404 -> "NotFoundError"
    [] status >= 400 /\ status < 500 -> "InvalidInputError"
    [] OTHER -> "UpstreamError"

\* The text begins with the words an error of this status begins with.
NamesStatus(msg, status) ==
  LET words == IF status = 0 THEN "n8n API error: undefined"
               ELSE "n8n API error: " \o ToString(status)
  IN Len(msg) >= Len(words) /\ SubSeq(msg, 1, Len(words)) = words

\* The text ends with the hint to check the API key.
HasKeyHint(msg) ==
  LET hint == " Check your N8N_API_KEY."
  IN Len(msg) >= Len(hint) /\ SubSeq(msg, Len(msg) - Len(hint) + 1, Len(msg)) = hint

\* The kind a caller reads off the error: its code, and for an invalid request
\* the presence of the hint.
KindShown(result) ==
  CASE result.code = InvalidRequest /\ HasKeyHint(result.msg) -> "AuthError"
    [] result.code = InvalidRequest -> "NotFoundError"
    [] result.code = InvalidParams -> "InvalidInputError"
    [] OTHER -> "UpstreamError"

\* The remote call of the invocation in r failed with this status.
FailedWith(r, status) ==
  /\ req[r].pc = "done"
  /\ req[r].result.kind = "thrown"
  /\ Called(r)
  /\ NamesStatus(req[r].result.msg, status)

\* C19: the error of a failed remote call shows the kind of its status: 401
\* and 403 an invalid request with the hint to check the API key, 404 an
\* invalid request without the hint, another 4xx invalid parameters, and
\* everything else an internal error; only 401 and 403 carry the hint.
C19_FailedCallShowsItsKind ==
  \A r \in DOMAIN req : \A status \in FailedStatuses :
    FailedWith(r, status)
    => /\ KindShown(req[r].result) = KindOfStatus(status)
       /\ HasKeyHint(req[r].result.msg) <=> status \in {401, 403}

\* Two invocations whose remote calls failed with 401 and with 404.
C19_Witness ==
  \E r, o \in DOMAIN req :
    /\ FailedWith(r, 401) /\ KindShown(req[r].result) = "AuthError"
    /\ FailedWith(o, 404) /\ KindShown(req[o].result) = "NotFoundError"

\* C20, as the specification states it: every invocation that has ended has
\* returned a result object, and none has thrown out of the handler.
C20_Original ==
  \A r \in DOMAIN req : req[r].pc = "done" => req[r].result.kind = "returned"

\* The invocation in r named a tool that reads its arguments and had none.
HadNoArguments(r) == req[r].tool \in DestructuringTools /\ req[r].args = Undef

\* The invocation in r had arguments, and lacked one that its tool requires.
LackedAnArgument(r) ==
  LET tool == req[r].tool
      args == req[r].args
  IN /\ tool \in DestructuringTools
     /\ args # Undef
     /\ \/ /\ tool \in {"execute_api_call", "get_api_endpoint_details"}
           /\ Falsy(args.path) \/ Falsy(args.method)
        \/ tool = "natural_language_api_search" /\ Falsy(args.query)
        \/ /\ tool = "save_to_fast_memory"
           /\ \/ Falsy(args.natural_language_query)
              \/ Falsy(args.api_path)
              \/ Falsy(args.api_method)
        \/ tool = "delete_from_fast_memory" /\ args.id.t # "num"
        \/ tool = "send_raw_api_request" /\ Falsy(args.raw_request)
        \/ tool = "load_api_spec_from_json" /\ Falsy(args.json_file_path)

\* What SQLite says when a statement of the server fails.
StorageMessages ==
  {"disk I/O error", "no such column: path", "no such column: natural_language_query",
   "cannot start a transaction within a transaction",
   "cannot commit - no transaction is active",
   "cannot rollback - no transaction is active"}

\* The invocation in r ended with an McpError thrown out of the handler.
ThrownWith(r, codes) ==
  /\ req[r].result.kind = "thrown"
  /\ req[r].result.isError
  /\ req[r].result.code \in codes

\* C20: an invocation ends by throwing an McpError out of the handler when
\* an argument is missing (InvalidParams), the tool is unknown
\* (MethodNotFound), a statement fails (InternalError) or the remote call fails
\* (the code of its status); it ends by returning a result with isError set and
\* a text only when the failure is no McpError, which is the case of a request
\* without arguments and of a stored cell that is no JSON.
C20_McpErrorsAreThrownOthersReturned ==
  \A r \in DOMAIN req :
    req[r].pc = "done"
    => /\ LackedAnArgument(r) => ThrownWith(r, {InvalidParams})
       /\ req[r].tool = "unknown_tool" => ThrownWith(r, {MethodNotFound})
       /\ req[r].result.msg \in StorageMessages => ThrownWith(r, {InternalError})
       /\ (\E status \in FailedStatuses :
             Called(r) /\ NamesStatus(req[r].result.msg, status))
          => ThrownWith(r, {InvalidRequest, InvalidParams, InternalError})
       /\ HadNoArguments(r)
          => /\ req[r].result.kind = "returned"
             /\ req[r].result.isError
             /\ req[r].result.msg = "Error executing tool. TypeError"
       /\ (req[r].result.kind = "returned" /\ req[r].result.isError)
          => /\ req[r].result.type = "text"
             /\ req[r].result.msg \in {"Error executing tool. TypeError",
                                       "Error executing tool. SyntaxError"}

\* One invocation named an unknown tool and threw, and the next had no
\* arguments and returned a result with isError set.
C20_Witness ==
  \E r, o \in DOMAIN req :
    /\ Follows(o, r)
    /\ req[r].pc = "done" /\ req[r].tool = "unknown_tool"
    /\ ThrownWith(r, {MethodNotFound})
    /\ req[o].pc = "done" /\ HadNoArguments(o)
    /\ req[o].result.kind = "returned" /\ req[o].result.isError

\* The document of the load in r is JSON that can be read, and it lacks the
\* openapi member or the paths member.
LacksMarkerOrPaths(file) ==
  /\ file.readable
  /\ file.json
  /\ Falsy(file.openapi) \/ ~file.hasPaths

\* This step is one of the load_api_spec_from_json in r: it enters the
\* handler, or it resumes the handler after an await.
LoadSteps(r) ==
  /\ req'[r].tool = "load_api_spec_from_json"
  /\ req'[r].args # Undef
  /\ Truthy(req'[r].args.json_file_path)
  /\ req'[r] # req[r]

\* C21: a load_api_spec_from_json of a document without openapi or without
\* paths leaves the endpoints table and its connection as they were in every
\* one of its steps, never waits for a statement, so that no BEGIN TRANSACTION
\* is run, and ends with InvalidParams.
C21_DocumentWithoutMarkerIsRefused ==
  [][\A r \in Slots :
       (LoadSteps(r) /\ LacksMarkerOrPaths(req'[r].args.file))
       => /\ apiSpecDb' = apiSpecDb
          /\ req'[r].stmt = NoStmt
          /\ req'[r].pc \in {"load_read", "done"}
          /\ req'[r].pc = "done"
             => /\ req'[r].result.kind = "thrown"
                /\ req'[r].result.code = InvalidParams]_vars

\* A load of a document without openapi and a load of a document without paths
\* have both ended with InvalidParams, and the catalog is empty.
C21_Witness ==
  \E r, o \in Slots :
    /\ Follows(o, r)
    /\ Done(r, "load_api_spec_from_json") /\ Done(o, "load_api_spec_from_json")
    /\ req[r].args.file.json /\ Falsy(req[r].args.file.openapi)
    /\ req[o].args.file.json /\ ~req[o].args.file.hasPaths
    /\ req[r].result.code = InvalidParams /\ req[o].result.code = InvalidParams
    /\ apiSpecDb.rows = {} /\ ~apiSpecDb.inTxn

\* The triples of the document whose key is an HTTP method.
MethodPairs(paths) == {i \in DOMAIN paths : toLowerCase(paths[i].method) \in HttpMethods}

\* Every key of the document that is an HTTP method holds an object.
EveryEndpointIsAnObject(paths) ==
  \A i \in MethodPairs(paths) : ~paths[i].endpointData.isNull

\* This step resumes the load in r after an INSERT OR REPLACE that failed.
InsertFails(r) ==
  /\ req[r].pc = "load_insert"
  /\ req'[r] # req[r]
  /\ faults' = faults + 1

LoadStatementFails(r, pc) ==
  /\ req[r].pc = pc
  /\ req'[r] # req[r]
  /\ faults' = faults + 1

\* This step resumes the load in r after its ROLLBACK, which did not fail.
LoadRollsBack(r) ==
  /\ req[r].pc = "load_rollback"
  /\ req'[r] # req[r]
  /\ faults' = faults

\* The load in r has ended with the error of its outer catch.
LoadAborted(r) ==
  /\ Done(r, "load_api_spec_from_json")
  /\ req[r].result.kind = "thrown"
  /\ req[r].result.code = InternalError
  /\ req[r].result.msg = "Database transaction failed during spec load"

\* C23: a load whose BEGIN TRANSACTION fails ends with InternalError and has
\* changed nothing; a load whose COMMIT fails runs ROLLBACK; and when the
\* ROLLBACK of a load has run, the load ends with InternalError, the endpoints
\* table holds the rows it held at BEGIN TRANSACTION, and the transaction is
\* over. When the first invocation of a run is a load that ends so, the
\* catalog is empty after it.
C23_FailedTransactionIsRolledBack ==
  /\ [][\A r \in Slots :
          /\ LoadStatementFails(r, "load_begin")
             => /\ req'[r].pc = "done"
                /\ req'[r].result.kind = "thrown"
                /\ req'[r].result.code = InternalError
                /\ apiSpecDb' = apiSpecDb
          /\ LoadStatementFails(r, "load_commit")
             => /\ req'[r].pc = "load_rollback"
                /\ apiSpecDb' = apiSpecDb
          /\ LoadRollsBack(r)
             => /\ req'[r].pc = "done"
                /\ req'[r].result.kind = "thrown"
                /\ req'[r].result.code = InternalError
                /\ apiSpecDb'.rows = apiSpecDb.saved
                /\ ~apiSpecDb'.inTxn]_vars
  /\ [](\A r \in Slots : (LoadAborted(r) /\ started = 1) => apiSpecDb.rows = {})

\* A load put one endpoint into the catalog; the next load inserted another
\* endpoint, failed and rolled back: the catalog holds the first endpoint only.
C23_Witness ==
  \E r, o \in Slots :
    /\ Follows(o, r)
    /\ Succeeded(r, "load_api_spec_from_json")
    /\ req[r].out.endpointsAdded = 1 /\ req[r].out.endpointsFailed = 0
    /\ LoadAborted(o)
    /\ IsMethod(req[o].args.file.paths[1])
    /\ ~req[o].args.file.paths[1].endpointData.isNull
    /\ req[o].args.file.paths[1].apiPath # req[r].args.file.paths[1].apiPath
    /\ Cardinality(apiSpecDb.rows) = 1
    /\ \A row \in apiSpecDb.rows :
         row.path = Str(req[r].args.file.paths[1].apiPath)
    /\ ~apiSpecDb.inTxn

\* This step is the invocation, in r, of a tool the server does not have.
UnknownToolRuns(r) == req'[r].tool = "unknown_tool" /\ req'[r] # req[r]

\* C24: an invocation that names an unknown tool ends at once with
\* MethodNotFound, and changes neither database, sends nothing to the n8n API
\* and leaves no statement behind; no other failure has the code
\* MethodNotFound.
C24_UnknownToolIsMethodNotFound ==
  /\ [][\A r \in Slots :
          UnknownToolRuns(r)
          => /\ req'[r].pc = "done"
             /\ req'[r].result.kind = "thrown"
             /\ req'[r].result.code = MethodNotFound
             /\ fastMemoryDb' = fastMemoryDb
             /\ apiSpecDb' = apiSpecDb
             /\ wire' = wire
             /\ detached' = detached]_vars
  /\ [](\A r \in Slots :
          (req[r].pc = "done" /\ req[r].result.code = MethodNotFound)
          => req[r].tool = "unknown_tool")

\* After a save that added an entry, an invocation of an unknown tool has
\* ended with MethodNotFound; the entry is there and nothing was sent.
C24_Witness ==
  \E r, o \in Slots :
    /\ Follows(o, r)
    /\ Succeeded(r, "save_to_fast_memory")
    /\ req[o].pc = "done" /\ req[o].tool = "unknown_tool"
    /\ req[o].result.kind = "thrown"
    /\ req[o].result.code = MethodNotFound
    /\ Cardinality(fastMemoryDb.rows) = 1
    /\ wire = {}

\* The execute_api_call in r has ended and had a path and a method; fast
\* memory holds an entry for them, which no other invocation in progress or
\* ended could have added or removed; no statement met a disk error and the
\* n8n API did not refuse the request.
ServedFromFastMemory(r) ==
  /\ Done(r, "execute_api_call")
  /\ Truthy(req[r].args.path) /\ Truthy(req[r].args.method)
  /\ Matching(fastMemoryDb.rows, req[r].args) # {}
  /\ \A o \in Slots \ {r} :
       req[o].tool \notin {"save_to_fast_memory", "delete_from_fast_memory",
                           "clear_fast_memory"}
  /\ req[r].result.msg # "disk I/O error"
  /\ ~RemoteFailed(r)

\* An invocation started after the one in r.
Overtaken(r) == \E o \in Slots : req[o].rid > req[r].rid

\* C25: an execute_api_call that fast memory has an entry for returns a result
\* served from that entry: with the note of the entry, or, when another
\* invocation started after it and reset lastCallFromFastMemory, with the hint
\* to save the call.
C25_HitReturnsNoteOrRacyHint ==
  \A r \in Slots :
    ServedFromFastMemory(r)
    => /\ ~req[r].result.isError
       /\ \/ req[r].out.messagePrefix # Str(<<>>)
          \/ Overtaken(r) /\ req[r].out.saveSuggestion.set

\* The invocation in r was resolved by the entry row of fast memory: a
\* natural_language_api_search that returned it, or an execute_api_call for
\* its path and method.
ServedBy(r, row) ==
  \/ /\ Succeeded(r, "natural_language_api_search")
     /\ req[r].result.msg = "Found match in fast memory."
     /\ req[r].out.entry.id = row.id
  \/ /\ ServedFromFastMemory(r)
     /\ row \in Matching(fastMemoryDb.rows, req[r].args)

\* No invocation of this run has written to fast_memory.
NothingSaved ==
  \A r \in Slots :
    req[r].tool \notin {"save_to_fast_memory", "delete_from_fast_memory",
                        "clear_fast_memory"}

\* C26: the usage_count of an entry is the number of invocations it has
\* resolved since it was created: the searches that returned it and the
\* execute_api_calls it matched.
C26_UsageCountCountsTheHits ==
  (NothingSaved /\ \A r \in Slots : req[r].pc \in {"idle", "done"})
  => \A row \in fastMemoryDb.rows :
       row.usage_count = Cardinality({r \in Slots : ServedBy(r, row)})

\* The n8n API answered the request of the invocation in r, and not with an
\* error.
RemoteSucceeded(r) ==
  /\ req[r].tool \in {"execute_api_call", "send_raw_api_request"}
  /\ Called(r)
  /\ req[r].pc \notin {"execute_http", "raw_http"}
  /\ ~RemoteFailed(r)

\* lastSuccessfulCallDetails holds the arguments makeN8nApiRequest got for the
\* request call.
HoldsCall(details, call) ==
  /\ details.path.s = call.url
  /\ toUpperCase(details.method.s) = call.method
  /\ Default(details.params, Obj(<<>>)) = call.params
  /\ Default(details.data, Obj(<<>>)) = call.data

\* C27: a step that enters the handler leaves lastCallFromFastMemory false and
\* lastSuccessfulCallDetails null; and with one invocation at a time, when the
\* last invocation has ended, lastSuccessfulCallDetails is set exactly when
\* that invocation was an execute_api_call or a send_raw_api_request whose
\* request the n8n API answered without error, and it then holds the path,
\* method, params and data of that request.
C27_TransientFieldsAreResetAndSet ==
  /\ [][started' # started
        => /\ lastCallFromFastMemory' = FALSE
           /\ lastSuccessfulCallDetails' = NoDetails]_vars
  /\ [](\A r \in Slots :
          (req[r].pc = "done" /\ req[r].rid = started)
          => /\ lastSuccessfulCallDetails.set <=> RemoteSucceeded(r)
             /\ lastSuccessfulCallDetails.set
                => \A call \in CallsOf(r) : HoldsCall(lastSuccessfulCallDetails, call))

\* A send_raw_api_request with a body has ended after the n8n API answered it,
\* and lastSuccessfulCallDetails holds its path, method, params and body; the
\* invocation before it had set the field too.
C27_Witness ==
  \E r, o \in Slots :
    /\ Follows(r, o)
    /\ req[o].pc = "done" /\ req[o].tool = "send_raw_api_request" /\ RemoteSucceeded(o)
    /\ req[r].pc = "done" /\ req[r].rid = started
    /\ req[r].tool = "send_raw_api_request"
    /\ RemoteSucceeded(r)
    /\ lastSuccessfulCallDetails.set
    /\ lastSuccessfulCallDetails.path = Str(PathX)
    /\ lastSuccessfulCallDetails.method = Str(Post)
    /\ lastSuccessfulCallDetails.data = NameX
    /\ CallsOf(o) # CallsOf(r)

HttpPcs == {"execute_http", "raw_http"}

\* The requests the invocation with this number has sent to the n8n API.
SentBy(sent, rid) == {w \in sent : w.rid = rid}

\* This step resumes the invocation in r after the answer of the n8n API.
Answered(r) == req[r].pc \in HttpPcs /\ req'[r] # req[r]

\* The invocation in r has ended with the error of a failed request of this
\* status, thrown to its caller.
Surfaced(q, status) ==
  /\ q.pc = "done"
  /\ q.result.kind = "thrown"
  /\ q.result.isError
  /\ NamesStatus(q.result.msg, status)

\* C28: an invocation has at no time sent more than one request to the n8n
\* API; once its request is answered it sends no other and does not wait for
\* the n8n API again, and it either goes on or ends with the error of a failed
\* request; and whenever an invocation waits for the n8n API, each failure the
\* n8n API can answer with ends the invocation at once with the error of that
\* failure.
C28_OneRequestAndFailureSurfaced ==
  /\ [][\A r \in Slots :
          /\ Cardinality(SentBy(wire', req'[r].rid)) <= 1
          /\ Answered(r)
             => /\ SentBy(wire', req[r].rid) = SentBy(wire, req[r].rid)
                /\ req'[r].pc \notin HttpPcs
                /\ req'[r].rid = req[r].rid
                /\ req'[r].pc = "done"
                   => \E status \in FailedStatuses : Surfaced(req'[r], status)]_vars
  /\ [](\A r \in Slots :
          req[r].pc \in HttpPcs
          => \A status \in FailedStatuses :
               ENABLED (HttpStep(r) /\ Surfaced(req'[r], status)))

\* A send_raw_api_request whose request the n8n API refused with 500 has
\* ended with that error, after the one request it sent.
C28_Witness ==
  \E r \in Slots :
    /\ req[r].tool = "send_raw_api_request"
    /\ Surfaced(req[r], 500)
    /\ Cardinality(SentBy(wire, req[r].rid)) = 1

\* The save_to_fast_memory in r is the last invocation there was, and it has
\* returned the message that names an entry ID.
SaveReported(r) ==
  /\ Succeeded(r, "save_to_fast_memory")
  /\ req[r].rid = started
  /\ req[r].out.changes > 0

\* C29: the ID in the message of a save_to_fast_memory is the id of the row
\* that holds the natural_language_query of the save.
C29_ReportedIdIsTheRowOfTheQuery ==
  \A r \in Slots :
    SaveReported(r)
    => \E row \in RowsOfQuery(fastMemoryDb.rows, req[r].args.natural_language_query) :
         row.id = req[r].out.id

\* The row differs from the row old in nothing but the columns the ON CONFLICT
\* clause sets.
OnlySavedColumnsDiffer(row, old) ==
  [row EXCEPT !.api_path = old.api_path, !.api_method = old.api_method,
              !.api_params = old.api_params, !.api_data = old.api_data,
              !.description = old.description, !.created_at = old.created_at] = old

\* C30: a save_to_fast_memory whose natural_language_query a row holds leaves
\* that row its id, its usage_count and its query and changes at most its
\* api_path, api_method, api_params, api_data, description and created_at; the
\* other rows stay as they are.
C30_OverwriteKeepsIdAndCount ==
  [][\A r \in Slots :
       SaveRuns(r)
       => \A old \in RowsOfQuery(fastMemoryDb.rows, req[r].args.natural_language_query) :
            \E row \in fastMemoryDb'.rows :
              /\ row.id = old.id
              /\ row.usage_count = old.usage_count
              /\ OnlySavedColumnsDiffer(row, old)
              /\ fastMemoryDb'.rows \ {row} = fastMemoryDb.rows \ {old}]_vars

\* After another entry was inserted as id 3, a save has overwritten the entry
\* "ab" of the earlier run: it is still row 1, with the path of the save.
C30_Witness ==
  \E r, o \in Slots :
    /\ Follows(r, o)
    /\ Succeeded(o, "save_to_fast_memory")
    /\ Succeeded(r, "save_to_fast_memory")
    /\ req[r].rid = started
    /\ req[r].args.natural_language_query = Str(QueryAB)
    /\ req[r].args.api_path = Str(PathX)
    /\ Cardinality(fastMemoryDb.rows) = 3
    /\ \E row \in fastMemoryDb.rows :
         /\ row.natural_language_query = Str(QueryAB)
         /\ row.id = 1
         /\ row.usage_count = 0
         /\ row.api_path = Str(PathX)

\* The ids of the endpoints the result of the invocation q shows.
SeenIds(q) ==
  IF q.pc # "done" \/ q.result.isError THEN {}
  ELSE CASE q.tool = "get_api_endpoint_details" -> {q.out.id}
         [] q.tool = "search_api_endpoints" -> {q.out[i].id : i \in DOMAIN q.out}
         [] q.tool = "natural_language_api_search" ->
              {q.out.results[i].id : i \in DOMAIN q.out.results}
         [] OTHER -> {}

\* This step runs the SELECT on endpoints the invocation in r awaits.
ReadsCatalog(r) ==
  /\ req[r].pc \in {"endpoints_select", "details_select", "search_spec"}
  /\ req'[r].pc = "done"

\* The load in o has begun its transaction and has an INSERT or the ROLLBACK
\* still to run: the rows it has inserted are not all its rows, or will be
\* rolled back.
LoadUnfinished(o) ==
  /\ req[o].tool = "load_api_spec_from_json"
  /\ req[o].pc \in {"load_insert", "load_rollback"}
  /\ apiSpecDb.inTxn

\* The rows the transaction in progress has inserted.
Uncommitted == apiSpecDb.rows \ apiSpecDb.saved

\* C31: a search_api_endpoints, get_api_endpoint_details or
\* natural_language_api_search that reads the catalog while a load has
\* insertions outstanding, or is about to roll back, shows none of the rows
\* that load has inserted.
C31_UnfinishedLoadIsNotSeen ==
  [][\A r, o \in Slots :
       (ReadsCatalog(r) /\ LoadUnfinished(o))
       => SeenIds(req'[r]) \cap {row.id : row \in Uncommitted} = {}]_vars

\* C32: a send_raw_api_request whose request the n8n API answered without
\* error ends with a result that is no error.
C32_AnsweredRawRequestSucceeds ==
  \A r \in Slots :
    (Done(r, "send_raw_api_request") /\ RemoteSucceeded(r)) => ~req[r].result.isError

ReadOnlyTools ==
  {"search_api_endpoints", "get_api_endpoint_details", "natural_language_api_search",
   "list_fast_memory"}

\* C33: no step of a search_api_endpoints, get_api_endpoint_details,
\* natural_language_api_search or list_fast_memory, from the entry of the
\* handler to its result or error, changes a row of endpoints or of
\* fast_memory.
C33_ReadersChangeNoRow ==
  [][\A r \in Slots :
       (req'[r] # req[r] /\ req'[r].tool \in ReadOnlyTools)
       => /\ apiSpecDb'.rows = apiSpecDb.rows
          /\ fastMemoryDb'.rows = fastMemoryDb.rows]_vars

\* After a load of two endpoints a search_api_endpoints has returned both, and
\* the catalog holds them and fast_memory the entries of the earlier run; and a
\* natural_language_api_search has returned an entry of fast_memory, whose
\* usage_count is 0 as before.
C33_Witness ==
  \/ \E r \in Slots :
       /\ Succeeded(r, "search_api_endpoints")
       /\ req[r].rid = started
       /\ Len(req[r].out) = 2
       /\ Cardinality(apiSpecDb.rows) = 2
       /\ fastMemoryDb = KeptFastMemory
  \/ \E r, o \in Slots :
       /\ Succeeded(r, "natural_language_api_search")
       /\ req[r].rid = started
       /\ req[r].out.entry # NoEntry
       /\ Succeeded(o, "list_fast_memory")
       /\ fastMemoryDb = KeptFastMemory

\* The execute_api_calls in r and o are in progress together, and a row of
\* fast_memory has the path and method of both.
OverlappingHits(r, o) ==
  /\ r # o
  /\ req[r].pc = "execute_lookup"
  /\ req[o].pc \in {"execute_lookup", "execute_http"}
  /\ Matching(fastMemoryDb.rows, req[r].args) \cap Matching(fastMemoryDb.rows, req[o].args)
       # {}

\* The UPDATE that adds one to the usage_count of the row, started by the
\* invocation rid.
IncrementOf(row, rid) ==
  [db |-> "fast_memory", op |-> "increment", id |-> row.id, rid |-> rid]

\* C34: no hit is lost when execute_api_calls overlap: when the lookup of an
\* execute_api_call ends, the storage not failing, while another
\* execute_api_call for the same entry is in progress, the UPDATE that adds one
\* to the usage_count of that entry is started.
C34_OverlappingHitIsCounted ==
  [][\A r, o \in Slots :
       (OverlappingHits(r, o) /\ req'[r].pc # "execute_lookup" /\ faults' = faults)
       => \E row \in Matching(fastMemoryDb.rows, req[r].args) :
            IncrementOf(row, req[r].rid) \in detached']_vars

====
